---------------------------- MODULE Spec2Model ----------------------------
(***************************************************************************)
(* A model of the LinkID JavaScript client SDK (sdk/js/src): the           *)
(* in-memory cache (cache.ts), the retrying transport (makeRequest) with   *)
(* its timeout timers, the constructor and the resolve / register /        *)
(* update / withdraw operations of LinkIDClient (client.ts), resolver      *)
(* discovery (discovery.ts), and the cache of the Java client's resolve    *)
(* (LinkIdClient.java).                                                    *)
(*                                                                         *)
(* Strings are sequences of one-character strings, so that the length and  *)
(* character rules of validateLinkID, the joining of generateCacheKey and  *)
(* the regular expression of MemoryCache.delete are computed and not       *)
(* assumed.  Time is Date.now() in milliseconds.                           *)
(***************************************************************************)
EXTENDS Integers, Sequences, FiniteSets, TLC

VARIABLES
    config,     \* LinkIDClient.config: caching, hasApiKey, retries, cacheTTL
    cacheOpts,  \* MemoryCache: maxSize and defaultTTL after the constructor
    cache,      \* MemoryCache.cache: the Map, as entries in insertion order
    stats,      \* MemoryCache.stats: hits and misses
    now,        \* Date.now(), in ms
    server,     \* the resolver: the version of the record of each identifier
    procs,      \* the calls in progress, one record per caller
    prev,       \* the call that completed before the current one started
    ncalls,     \* operations started so far
    lastOp,     \* the last call made directly on a component, and its return
    discovery   \* ResolverDiscovery: its Map, the discover call in progress
                \* and the one that returned before it

vars == <<discovery, config, cacheOpts, cache, stats, now, server, procs, prev, ncalls, lastOp>>

(***************************************************************************)
(* Bounds of the model.                                                    *)
(***************************************************************************)
MaxCalls == 3       \* client operations started in one behaviour
MaxTicks == 1       \* clock advances in one behaviour
MaxCacheOps == 3    \* direct MemoryCache calls in one behaviour (SpecCache)
MaxDiscoveryTicks == 3  \* clock advances in one behaviour (SpecDiscovery)

(***************************************************************************)
(* Program constants.                                                      *)
(***************************************************************************)
MinIdLength == 32
MaxIdLength == 64
DefaultRetries == 3
DefaultCacheTTL == 3600
DefaultMaxSize == 1000
ClientMaxSize == 1000
MsPerSecond == 1000
DiscoveryTTL == 3600

\* The clock is observed every two seconds
TickMs == 2 * MsPerSecond

\* The value of an absent result: what cache.get returns on a miss.
Null == [type |-> "null"]

(***************************************************************************)
(* Strings.                                                                *)
(***************************************************************************)
Rep(c, n) == [i \in 1..n |-> c]

Letters ==
    {"a","b","c","d","e","f","g","h","i","j","k","l","m","n","o","p","q","r",
     "s","t","u","v","w","x","y","z","A","B","C","D","E","F","G","H","I","J",
     "K","L","M","N","O","P","Q","R","S","T","U","V","W","X","Y","Z"}

Digits == {"0","1","2","3","4","5","6","7","8","9"}

\* The character class of validateLinkID: [A-Za-z0-9._~-]
IdChars == Letters \cup Digits \cup {".", "_", "~", "-"}

DigitOf(n) ==
    CASE n = 0 -> "0" [] n = 1 -> "1" [] n = 2 -> "2" [] n = 3 -> "3"
      [] n = 4 -> "4" [] n = 5 -> "5" [] n = 6 -> "6" [] n = 7 -> "7"
      [] n = 8 -> "8" [] n = 9 -> "9"

\* Number.prototype.toString for a non-negative integer
RECURSIVE NumToString(_)
NumToString(n) ==
    IF n < 10 THEN <<DigitOf(n)>>
    ELSE NumToString(n \div 10) \o <<DigitOf(n % 10)>>

\* Array.prototype.join(':')
RECURSIVE Join(_)
Join(parts) ==
    IF Len(parts) = 0 THEN <<>>
    ELSE IF Len(parts) = 1 THEN parts[1]
    ELSE parts[1] \o <<":">> \o Join(Tail(parts))

RECURSIVE Pow2(_)
Pow2(n) == IF n = 0 THEN 1 ELSE 2 * Pow2(n - 1)

(***************************************************************************)
(* MemoryCache (cache.ts).  An entry is [key, value, expires]; the Map     *)
(* keeps its entries in insertion order, and setting a key that is present *)
(* keeps the key's place.                                                  *)
(***************************************************************************)
\* constructor: options.maxSize || 1000, options.defaultTTL || 3600 (0: not given)
MemoryCacheOptions(maxSize, defaultTTL) ==
    [maxSize    |-> IF maxSize = 0 THEN DefaultMaxSize ELSE maxSize,
     defaultTTL |-> IF defaultTTL = 0 THEN DefaultCacheTTL ELSE defaultTTL]

KeysOf(c) == {c[i].key : i \in 1..Len(c)}

MapHas(c, key) == key \in KeysOf(c)

\* Map.get, for a key that is present
MapGet(c, key) == c[CHOOSE j \in 1..Len(c) : c[j].key = key]

\* Map.delete
MapDelete(c, key) == SelectSeq(c, LAMBDA e : e.key # key)

\* Map.set
MapSet(c, key, value, expires) ==
    LET e == [key |-> key, value |-> value, expires |-> expires] IN
    IF key \in KeysOf(c)
    THEN [i \in 1..Len(c) |-> IF c[i].key = key THEN e ELSE c[i]]
    ELSE Append(c, e)

\* MemoryCache.get with the expiry test off by one: an entry is dropped at its
\* expiry instant already (>= for >)
MemGetExpiresEarly(c, st, key, t) ==
    IF ~MapHas(c, key)
    THEN [cache |-> c, stats |-> [st EXCEPT !.misses = @ + 1], ret |-> Null]
    ELSE IF t >= MapGet(c, key).expires
    THEN [cache |-> MapDelete(c, key),
          stats |-> [st EXCEPT !.misses = @ + 1], ret |-> Null]
    ELSE [cache |-> c, stats |-> [st EXCEPT !.hits = @ + 1],
          ret |-> MapGet(c, key).value]

\* MemoryCache.get that reports an expired entry as a miss and leaves it stored
MemGetKeepsExpired(c, st, key, t) ==
    IF ~MapHas(c, key)
    THEN [cache |-> c, stats |-> [st EXCEPT !.misses = @ + 1], ret |-> Null]
    ELSE IF t > MapGet(c, key).expires
    THEN [cache |-> c, stats |-> [st EXCEPT !.misses = @ + 1], ret |-> Null]
    ELSE [cache |-> c, stats |-> [st EXCEPT !.hits = @ + 1],
          ret |-> MapGet(c, key).value]

\* A get with sliding expiration: a hit moves the expiry of the entry on by
\* a second
MemGetSliding(c, st, key, t) ==
    IF ~MapHas(c, key)
    THEN [cache |-> c, stats |-> [st EXCEPT !.misses = @ + 1], ret |-> Null]
    ELSE IF t > MapGet(c, key).expires
    THEN [cache |-> MapDelete(c, key),
          stats |-> [st EXCEPT !.misses = @ + 1], ret |-> Null]
    ELSE [cache |-> MapSet(c, key, MapGet(c, key).value,
                           MapGet(c, key).expires + MsPerSecond),
          stats |-> [st EXCEPT !.hits = @ + 1],
          ret |-> MapGet(c, key).value]

\* MemoryCache.get: the cache, the counters and the value returned
MemGet(c, st, key, t) ==
    IF ~MapHas(c, key)
    THEN [cache |-> c, stats |-> [st EXCEPT !.misses = @ + 1], ret |-> Null]
    ELSE IF t > MapGet(c, key).expires
    THEN [cache |-> MapDelete(c, key),
          stats |-> [st EXCEPT !.misses = @ + 1], ret |-> Null]
    ELSE [cache |-> c, stats |-> [st EXCEPT !.hits = @ + 1],
          ret |-> MapGet(c, key).value]

\* MemoryCache.set; ttl = 0 stands for a ttl that is 0 or not given (ttl || defaultTTL)
MemSet(c, opts, key, value, ttl, t) ==
    LET evicted ==
            IF Len(c) >= opts.maxSize
            THEN LET firstKey == c[1].key IN
                 IF firstKey # <<>> THEN MapDelete(c, firstKey) ELSE c
            ELSE c
        expires == t + (IF ttl # 0 THEN ttl ELSE opts.defaultTTL) * MsPerSecond
    IN  MapSet(evicted, key, value, expires)

\* The regular expression new RegExp(pattern.replace(/\*/g, '.*')), for patterns
\* over IdChars, ':' and '*': '*' becomes '.*', '.' matches any one character
\* and every other character matches itself.
RegexTokens(pattern) ==
    [i \in 1..Len(pattern) |->
        IF pattern[i] = "*" THEN "anyrun"
        ELSE IF pattern[i] = "." THEN "anyone"
        ELSE pattern[i]]

RECURSIVE MatchHere(_, _, _, _)
MatchHere(toks, i, key, j) ==
    IF i > Len(toks) THEN TRUE
    ELSE IF toks[i] = "anyrun"
    THEN \E k \in j..(Len(key) + 1) : MatchHere(toks, i + 1, key, k)
    ELSE /\ j <= Len(key)
         /\ toks[i] = "anyone" \/ toks[i] = key[j]
         /\ MatchHere(toks, i + 1, key, j + 1)

\* RegExp.prototype.test: the expression is not anchored
RegexTest(pattern, key) ==
    \E j \in 1..(Len(key) + 1) : MatchHere(RegexTokens(pattern), 1, key, j)

\* MemoryCache.delete
MemDelete(c, pattern) == SelectSeq(c, LAMBDA e : ~RegexTest(pattern, e.key))

\* A clear that empties the Map and leaves the counters
MemClearKeepsCounters(c, st) == [cache |-> <<>>, stats |-> st]

\* MemoryCache.clear: the cache and the counters after it
MemClear(c, st) == [cache |-> <<>>, stats |-> [hits |-> 0, misses |-> 0]]

\* The quotient hits / total, kept as numerator and denominator; 0 is 0/1
HitRate(hits, total) ==
    IF total > 0 THEN [num |-> hits, den |-> total] ELSE [num |-> 0, den |-> 1]

\* MemoryCache.getStats
GetStats(c, st) ==
    [hits |-> st.hits, misses |-> st.misses, size |-> Len(c),
     total |-> st.hits + st.misses,
     hitRate |-> HitRate(st.hits, st.hits + st.misses)]


(***************************************************************************)
(* ResolverDiscovery (discovery.ts).  A URL is a sequence of parts, so that *)
(* the replace of discoverWellKnown is computed.                            *)
(***************************************************************************)
\* 'https://resolver.linkid.org'
DefaultResolver == <<"https://resolver.linkid.org">>

\* '/resolve/{id}'
ResolveTemplate == "/resolve/{id}"

\* String.prototype.replace(part, ''): the first occurrence is removed
RECURSIVE ReplaceFirst(_, _)
ReplaceFirst(url, part) ==
    IF url = <<>> THEN <<>>
    ELSE IF url[1] = part THEN Tail(url)
    ELSE <<url[1]>> \o ReplaceFirst(Tail(url), part)

\* The object response.json() resolves to, for the outcomes whose body is a
\* JSON object: a document that keeps its endpoints under `resolver`, a
\* document of the shape {issuer, endpoints: {resolve, metadata}, policies},
\* and an object with neither
WellKnownData(outcome) ==
    CASE outcome.kind = "document" ->
            [resolver |-> [endpoints |-> [resolve |-> outcome.endpoint]]]
      [] outcome.kind = "documented" ->
            [issuer |-> "issuer",
             endpoints |-> [resolve |-> outcome.endpoint, metadata |-> "metadata"],
             policies |-> [httpsOnly |-> TRUE, rateLimit |-> 0]]
      [] OTHER -> [issuer |-> "issuer"]

\* The try block of discoverWellKnown for an outcome of the fetch: whether it
\* throws, and the list it returns.  fetch rejects on a network error,
\* response.json() rejects on a body that is not JSON, `data.resolver` throws
\* on the body null, and `.replace` throws on an endpoint that is no string.
WellKnownTry(outcome) ==
    LET data == WellKnownData(outcome) IN
    CASE outcome.kind \in {"networkError", "notJson", "null", "resolveNotString"} ->
            [threw |-> TRUE, value |-> <<>>]
      [] outcome.kind = "notOk" ->
            [threw |-> FALSE, value |-> <<>>]
      [] OTHER ->
            IF /\ "resolver" \in DOMAIN data
               /\ "endpoints" \in DOMAIN data.resolver
               /\ "resolve" \in DOMAIN data.resolver.endpoints
               /\ data.resolver.endpoints.resolve # <<>>
            THEN [threw |-> FALSE,
                  value |-> <<ReplaceFirst(data.resolver.endpoints.resolve,
                                           ResolveTemplate)>>]
            ELSE [threw |-> FALSE, value |-> <<>>]

\* discoverWellKnown: what the try block throws is caught, and [] is returned
DiscoverWellKnown(outcome) ==
    IF WellKnownTry(outcome).threw
    THEN [threw |-> FALSE, value |-> <<>>]
    ELSE WellKnownTry(outcome)

\* A discover that returns the list as it is
PushDefaultNever(resolvers) == resolvers

\* discover: the default resolver is added when nothing was found
PushDefault(resolvers) ==
    IF Len(resolvers) = 0 THEN <<DefaultResolver>> ELSE resolvers

\* A cache check that takes an entry at its expiry instant as unexpired
DiscoveryHitInclusive(map, domain, t) ==
    MapHas(map, domain) /\ t <= MapGet(map, domain).expires

\* discover: the cache check (cached && Date.now() < cached.expires)
DiscoveryHit(map, domain, t) ==
    MapHas(map, domain) /\ t < MapGet(map, domain).expires

(***************************************************************************)
(* LinkIDClient (client.ts): pure helpers.                                 *)
(***************************************************************************)
\* validateLinkID without the upper length limit
ValidateLinkIDNoMax(linkId) ==
    /\ Len(linkId) # 0
    /\ ~(Len(linkId) < MinIdLength)
    /\ \A i \in 1..Len(linkId) : linkId[i] \in IdChars

\* validateLinkID: TRUE when no ValidationError is thrown
ValidateLinkID(linkId) ==
    /\ Len(linkId) # 0
    /\ ~(Len(linkId) < MinIdLength \/ Len(linkId) > MaxIdLength)
    /\ \A i \in 1..Len(linkId) : linkId[i] \in IdChars

\* Character.isWhitespace
WhiteSpace == {" "}

\* String.isBlank (Java): empty, or white space only
IsBlank(str) == \A i \in 1..Len(str) : str[i] \in WhiteSpace

\* A Java validator that looks for the character class anywhere in the string
\* (find) where the code asks the whole string to match
ValidateLinkIdJavaFind(linkId) ==
    /\ ~IsBlank(linkId)
    /\ ~(Len(linkId) < MinIdLength \/ Len(linkId) > MaxIdLength)
    /\ \E i \in 1..Len(linkId) : linkId[i] \in IdChars

\* LinkIdClient.validateLinkId (Java): TRUE when no ValidationException is
\* thrown; String.matches asks the whole string to match [A-Za-z0-9._~-]+
ValidateLinkIdJava(linkId) ==
    /\ ~IsBlank(linkId)
    /\ ~(Len(linkId) < MinIdLength \/ Len(linkId) > MaxIdLength)
    /\ Len(linkId) >= 1 /\ \A i \in 1..Len(linkId) : linkId[i] \in IdChars

\* The characters of a URL scheme after its first letter
SchemeChars == Letters \cup Digits \cup {"+", "-", "."}

\* The index of the first ':' of s, or 0
ColonAt(s) ==
    IF \E i \in 1..Len(s) : s[i] = ":"
    THEN CHOOSE i \in 1..Len(s) : s[i] = ":" /\ \A j \in 1..(i - 1) : s[j] # ":"
    ELSE 0

\* The scheme new URL(s) finds: a letter, then scheme characters, up to the
\* first ':'; <<>> when s does not start with a scheme
SchemeOf(s) ==
    LET i == ColonAt(s) IN
    IF /\ i >= 2
       /\ s[1] \in Letters
       /\ \A j \in 2..(i - 1) : s[j] \in SchemeChars
    THEN SubSeq(s, 1, i - 1)
    ELSE <<>>

\* The schemes whose URLs need a host
SpecialSchemes ==
    {<<"h","t","t","p">>, <<"h","t","t","p","s">>, <<"f","t","p">>,
     <<"w","s">>, <<"w","s","s">>}

RECURSIVE StripSlashes(_)
StripSlashes(s) ==
    IF s # <<>> /\ s[1] \in {"/", "\\"} THEN StripSlashes(Tail(s)) ELSE s

\* new URL(s) without a base: TRUE when it does not throw.  s must start with
\* a scheme; after a special scheme a host must follow the slashes.  (Schemes
\* are given in lower case.)
UrlParses(s) ==
    LET scheme == SchemeOf(s)
        rest == SubSeq(s, ColonAt(s) + 1, Len(s))
    IN  /\ scheme # <<>>
        /\ scheme \in SpecialSchemes => StripSlashes(rest) # <<>>

\* validateRegistrationRequest: TRUE when no ValidationError is thrown;
\* targetUri = <<>> stands for a targetUri that is missing or empty
ValidateRegistrationRequest(targetUri) ==
    /\ targetUri # <<>>
    /\ UrlParses(targetUri)

\* A client that takes every apiKey, a missing one included, as given
HasApiKeyAlways(cfg) == TRUE

\* this.config.apiKey is given
HasApiKey(cfg) == cfg.hasApiKey

\* ResolutionOptions; an empty string or version 0 stands for a field that is
\* not given (the code tests each field for truthiness only).
NoOptions ==
    [format |-> <<>>, language |-> <<>>, version |-> 0, timestamp |-> <<>>,
     metadata |-> FALSE, bypassCache |-> FALSE]

\* A key that tells a call with bypassCache from one without
GenerateCacheKeyWithBypass(linkId, options) ==
    Join(<< <<"l","i","n","k","i","d">>,
            linkId,
            options.format,
            options.language,
            IF options.version # 0 THEN NumToString(options.version) ELSE <<>>,
            IF options.metadata THEN <<"1">> ELSE <<"0">>,
            IF options.bypassCache THEN <<"1">> ELSE <<"0">> >>)

\* generateCacheKey
GenerateCacheKey(linkId, options) ==
    Join(<< <<"l","i","n","k","i","d">>,
            linkId,
            options.format,
            options.language,
            IF options.version # 0 THEN NumToString(options.version) ELSE <<>>,
            IF options.metadata THEN <<"1">> ELSE <<"0">> >>)

\* An invalidation that names the key of the default options only
InvalidationPatternDefaultKey(linkId) ==
    <<"l","i","n","k","i","d",":">> \o linkId \o <<":", ":", ":", ":", "0">>

\* The pattern update and withdraw hand to cache.delete: `linkid:${linkId}:*`
InvalidationPattern(linkId) ==
    <<"l","i","n","k","i","d",":">> \o linkId \o <<":", "*">>

\* Response.ok
IsOk(status) == status >= 200 /\ status <= 299

\* parseCacheControlHeader; maxAge = -1 stands for a header that is absent or
\* carries no max-age=N
ParseCacheControlHeader(maxAge, cfg) ==
    IF maxAge = -1 THEN cfg.cacheTTL ELSE maxAge

\* A backoff that grows by one second per attempt
BackoffLinear(attempt) == attempt * MsPerSecond

\* The delay makeRequest waits after failed attempt `attempt`, in ms
BackoffMs(attempt) == Pow2(attempt - 1) * MsPerSecond

\* undefined: an optional field that is not given
Undefined == [type |-> "undefined"]

\* The body of a response: whether response.json() resolves, and the tombstone
\* field of the object it resolves to.  A body that parses is a JSON object.
JsonBody(tombstone) == [json |-> TRUE, tombstone |-> tombstone]

\* A body that is not JSON: response.json() rejects
TextBody == [json |-> FALSE, tombstone |-> Undefined]

NoError == [name |-> "none", code |-> "none"]

\* What response.json() rejects with; not a LinkIDError
SyntaxError == [name |-> "SyntaxError", code |-> "none"]

ValidationError == [name |-> "ValidationError", code |-> "VALIDATION_ERROR"]

NetworkError == [name |-> "NetworkError", code |-> "NETWORK_ERROR"]

\* 'unknown'
Unknown == <<"u","n","k","n","o","w","n">>

\* new LinkIDNotFoundError(linkId)
LinkIDNotFoundError(linkId) ==
    [name |-> "LinkIDNotFoundError", code |-> "LINKID_NOT_FOUND", linkId |-> linkId]

\* new LinkIDWithdrawnError(linkId, message, tombstone)
LinkIDWithdrawnError(linkId, tombstone) ==
    [name |-> "LinkIDWithdrawnError", code |-> "LINKID_WITHDRAWN",
     linkId |-> linkId, tombstone |-> tombstone]

\* handleErrorResponse that does not hand the tombstone on
HandleErrorResponseNoTombstone(status, body, linkId) ==
    LET id == IF linkId # <<>> THEN linkId ELSE Unknown IN
    CASE status = 404 -> LinkIDNotFoundError(id)
      [] status = 410 -> LinkIDWithdrawnError(id, Undefined)
      [] status \in {400, 422} -> ValidationError
      [] status = 401 -> [name |-> "LinkIDError", code |-> "UNAUTHORIZED"]
      [] status = 403 -> [name |-> "LinkIDError", code |-> "FORBIDDEN"]
      [] status = 429 -> [name |-> "LinkIDError", code |-> "RATE_LIMITED"]
      [] OTHER -> [name |-> "LinkIDError", code |-> "HTTP_ERROR"]

\* handleErrorResponse: the error it throws for a response of this status and
\* body; linkId is <<>> when the caller gives none.  errorData is the parsed
\* body, or { error: 'Unknown error' } when the body does not parse.
HandleErrorResponse(status, body, linkId) ==
    LET errorData == IF body.json THEN body ELSE JsonBody(Undefined)
        id == IF linkId # <<>> THEN linkId ELSE Unknown
    IN
    CASE status = 404 -> LinkIDNotFoundError(id)
      [] status = 410 -> LinkIDWithdrawnError(id, errorData.tombstone)
      [] status \in {400, 422} -> ValidationError
      [] status = 401 -> [name |-> "LinkIDError", code |-> "UNAUTHORIZED"]
      [] status = 403 -> [name |-> "LinkIDError", code |-> "FORBIDDEN"]
      [] status = 429 -> [name |-> "LinkIDError", code |-> "RATE_LIMITED"]
      [] OTHER -> [name |-> "LinkIDError", code |-> "HTTP_ERROR"]

\* new NetworkError(message, statusCode)
NetworkErrorWith(statusCode) ==
    [name |-> "NetworkError", code |-> "NETWORK_ERROR", statusCode |-> statusCode]

\* new TimeoutError()
TimeoutError == [name |-> "TimeoutError", code |-> "TIMEOUT_ERROR"]

\* new AuthenticationError()
AuthenticationError == [name |-> "AuthenticationError", code |-> "AUTHENTICATION_ERROR"]

\* new AuthorizationError()
AuthorizationError == [name |-> "AuthorizationError", code |-> "AUTHORIZATION_ERROR"]

\* new RateLimitError()
RateLimitError == [name |-> "RateLimitError", code |-> "RATE_LIMIT_ERROR"]

\* The class each error class extends (errors.ts)
SuperClass(name) ==
    CASE name \in {"TimeoutError", "ResponseError"} -> "NetworkError"
      [] name \in {"LinkIDNotFoundError", "LinkIDWithdrawnError", "ValidationError",
                   "NetworkError", "AuthenticationError", "AuthorizationError",
                   "RateLimitError", "CacheError"} -> "LinkIDError"
      [] OTHER -> "Error"

\* error instanceof cls
RECURSIVE IsA(_, _)
IsA(name, cls) ==
    IF name = cls THEN TRUE
    ELSE IF name = "Error" THEN FALSE
    ELSE IsA(SuperClass(name), cls)

InstanceOf(error, cls) == IsA(error.name, cls)

\* Whether error.statusCode is given
HasStatusCode(error) == "statusCode" \in DOMAIN error

\* isRetryableError (errors.ts)
IsRetryableError(error) ==
    IF InstanceOf(error, "NetworkError")
    THEN \/ ~HasStatusCode(error)
         \/ error.statusCode = 0
         \/ error.statusCode >= 500
    ELSE IF InstanceOf(error, "TimeoutError") THEN TRUE
    ELSE IF \/ InstanceOf(error, "ValidationError")
            \/ InstanceOf(error, "AuthenticationError")
            \/ InstanceOf(error, "AuthorizationError")
            \/ InstanceOf(error, "LinkIDNotFoundError")
            \/ InstanceOf(error, "LinkIDWithdrawnError")
    THEN FALSE
    ELSE TRUE

(***************************************************************************)
(* The inputs the callers and the resolver draw from.                      *)
(***************************************************************************)
IdA == Rep("a", 32)

IdDot == Rep("a", 31) \o <<".">>

\* 'not-a-linkid' (client.test.ts): too short
IdShort == <<"n","o","t","-","a","-","l","i","n","k","i","d">>

IdLong == Rep("a", 65)

\* 32 characters, one of them outside the character class
IdColon == Rep("a", 31) \o <<":">>

\* 'linkid:7e96f229-21c3-4a3d-a6cf-ef7d8dd70f24' (README.md, client.test.ts)
IdReadme ==
    <<"l","i","n","k","i","d",":",
      "7","e","9","6","f","2","2","9","-","2","1","c","3","-","4","a","3","d","-",
      "a","6","c","f","-","e","f","7","d","8","d","d","7","0","f","2","4">>

ValidIds == {IdA, IdDot}

InvalidIds == {<<>>, IdShort, IdLong, IdColon, IdReadme}

Ids == ValidIds \cup InvalidIds

OptionSets ==
    {NoOptions,
     [NoOptions EXCEPT !.format = <<"p","d","f">>],
     [NoOptions EXCEPT !.bypassCache = TRUE]}

\* Statuses the resolver answers with
Statuses == {200, 304, 404, 499, 500}

ClientStatuses == {200, 404, 500}

\* Cache-Control of a 200 response: no max-age, or max-age=N
MaxAges == {-1, 2}

Procs == {1, 2}

NoResp == [kind |-> "none"]

Failure == [kind |-> "failure"]

Response(status, redirected, ver, maxAge, body) ==
    [kind |-> "response", status |-> status, redirected |-> redirected,
     ver |-> ver, maxAge |-> maxAge, body |-> body]

\* The responses the resolver can give to a request of operation op when the
\* record of the identifier is at version ver.  A 200 carries the record as
\* JSON, and Cache-Control with one of maxAges; the body of any other status
\* is a JSON object or is not JSON.
ResponsesTo(op, ver, statuses, maxAges) ==
    IF op = "register"
    THEN {Response(s, FALSE, ver, -1, JsonBody(Undefined)) : s \in statuses}
    ELSE IF op \in {"update", "withdraw"}
    THEN {Response(s, FALSE, IF IsOk(s) THEN ver + 1 ELSE ver, -1, JsonBody(Undefined)) :
             s \in statuses}
    ELSE {Response(200, r, ver, m, JsonBody(Undefined)) : r \in BOOLEAN, m \in maxAges}
         \cup {Response(s, FALSE, ver, -1, b) :
                  s \in statuses \ {200}, b \in {JsonBody(Undefined), TextBody}}

IdleProc ==
    [pc |-> "idle", op |-> "none", linkId |-> <<>>, options |-> NoOptions,
     startedAt |-> 0, attempt |-> 0, fetches |-> 0, waits |-> <<>>,
     outcomes |-> <<>>, gets |-> 0, sets |-> 0, deletes |-> 0,
     cached |-> Null, resp |-> NoResp, result |-> Null, error |-> NoError,
     storedExpires |-> -1, removed |-> {}, targetUri |-> <<>>,
     controller |-> 0, timers |-> {}, fired |-> <<>>]

\* No call, or a call of which nothing is kept
NoCall ==
    [op |-> "none", linkId |-> <<>>, options |-> NoOptions, expires |-> 0,
     removed |-> {}]


\* What is kept of a completed call when its caller starts the next one: of a
\* resolve that stored its result, the identifier, the options and the expiry
\* of the stored entry; of a write that succeeded, the identifier and the keys
\* its cache.delete removed; of any other call, nothing.
Summary(r) ==
    IF r.op = "resolve" /\ r.sets > 0
    THEN [NoCall EXCEPT !.op = r.op, !.linkId = r.linkId, !.options = r.options,
                        !.expires = r.storedExpires]
    ELSE IF r.op \in {"update", "withdraw"} /\ r.error = NoError
    THEN [NoCall EXCEPT !.op = r.op, !.linkId = r.linkId, !.removed = r.removed]
    ELSE NoCall

\* A discover call: not started
IdleDiscover ==
    [pc |-> "idle", domain |-> "none", startedAt |-> 0, returnedAt |-> 0,
     fetches |-> 0, outcome |-> "none", endpoint |-> <<>>, result |-> <<>>]

\* new ResolverDiscovery(): an empty Map, no call
NoDiscovery == [map |-> <<>>, call |-> IdleDiscover, last |-> IdleDiscover]

(***************************************************************************)
(* The state after construction.                                           *)
(***************************************************************************)
\* new LinkIDClient(config): retries || 3, caching !== false, cacheTTL || 3600
Configs ==
    [caching : BOOLEAN, hasApiKey : BOOLEAN, retries : {2},
     cacheTTL : {1}]

TransportConfigs ==
    [caching : {TRUE}, hasApiKey : {FALSE}, retries : 1..(DefaultRetries + 1),
     cacheTTL : {DefaultCacheTTL}]

\* new LinkIDClient(config): whether it throws, and this.config.  In the
\* given configuration <<>> and 0 stand for a field that is not given (or is
\* given as '' or 0: the code tests each field with ||).
NewLinkIDClient(given) ==
    [threw |-> FALSE,
     config |-> [resolverUrl |-> IF given.resolverUrl = <<>> THEN DefaultResolver
                                 ELSE given.resolverUrl,
                 hasApiKey |-> given.hasApiKey,
                 retries |-> IF given.retries = 0 THEN DefaultRetries
                             ELSE given.retries,
                 caching |-> given.caching,
                 cacheTTL |-> IF given.cacheTTL = 0 THEN DefaultCacheTTL
                              ELSE given.cacheTTL]]

\* The configurations handed to the constructor: with and without a resolver
\* URL, and retries negative, zero or not given, and positive
GivenConfigs ==
    [resolverUrl : {<<>>, <<"https://r.example">>},
     hasApiKey : {FALSE},
     retries : {-1, 0, 1, 2},
     caching : {TRUE},
     cacheTTL : {0}]

InitWith(configs) ==
    /\ config \in configs
    /\ cacheOpts = MemoryCacheOptions(ClientMaxSize, config.cacheTTL)
    /\ cache = <<>>
    /\ stats = [hits |-> 0, misses |-> 0]
    /\ now = 0
    /\ server = [id \in Ids |-> 0]
    /\ procs = [p \in Procs |-> IdleProc]
    /\ prev = [p \in Procs |-> NoCall]
    /\ ncalls = 0
    /\ lastOp = [op |-> "none"]
    /\ discovery = NoDiscovery

Init == InitWith(Configs)

InitTransport == InitWith(TransportConfigs)

(***************************************************************************)
(* The steps of a call.  A call runs from one await to the next in a step. *)
(***************************************************************************)
\* The caller p may start an operation
CanCall(p) == procs[p].pc \in {"idle", "done"} /\ ncalls < MaxCalls

Begin(p, op, linkId, options) ==
    [IdleProc EXCEPT !.op = op, !.linkId = linkId, !.options = options,
                     !.startedAt = now]

\* What `lastError!.message` throws when lastError was never assigned
TypeError == [name |-> "TypeError", code |-> "none"]

\* makeRequest, the head of the loop (attempt <= this.config.retries): the
\* next attempt makes its AbortController, sets its timeout timer and calls
\* fetch.  The controllers a caller has made are numbered; `controller` is
\* the latest, `timers` are the controllers whose timer is pending.  The loop is left here only when it is never
\* entered (after a failed attempt the body continues only when
\* attempt < retries); then lastError is unassigned, and building the
\* message of the NetworkError throws TypeError.
StartFetch(r) ==
    IF r.attempt + 1 <= config.retries
    THEN [r EXCEPT !.pc = "fetching", !.attempt = @ + 1, !.fetches = @ + 1,
                   !.resp = NoResp,
                   !.controller = @ + 1, !.timers = @ \cup {r.controller + 1}]
    ELSE [r EXCEPT !.pc = "done", !.error = TypeError]

Thrown(r, err) == [r EXCEPT !.pc = "done", !.error = err]

\* A cache check that ignores bypassCache
UseCacheIgnoringBypass(options) == config.caching

\* resolve: whether the cache is looked up (this.config.caching && !options.bypassCache)
UseCache(options) == config.caching /\ ~options.bypassCache

\* resolve, to its first await: validation, then cache.get or the first fetch
Resolve(p, linkId, options) ==
    /\ CanCall(p)
    /\ ncalls' = ncalls + 1
    /\ prev' = [prev EXCEPT ![p] = Summary(procs[p])]
    /\ LET r == Begin(p, "resolve", linkId, options)
           key == GenerateCacheKey(linkId, options)
           g == MemGet(cache, stats, key, now)
       IN  IF ~ValidateLinkID(linkId)
           THEN /\ procs' = [procs EXCEPT ![p] = Thrown(r, ValidationError)]
                /\ UNCHANGED <<cache, stats>>
           ELSE IF UseCache(options)
           THEN /\ procs' = [procs EXCEPT ![p] =
                       [r EXCEPT !.pc = "gotCache", !.gets = 1, !.cached = g.ret]]
                /\ cache' = g.cache
                /\ stats' = g.stats
           ELSE /\ procs' = [procs EXCEPT ![p] = StartFetch(r)]
                /\ UNCHANGED <<cache, stats>>
    /\ UNCHANGED <<discovery, config, cacheOpts, now, server, lastOp>>

\* resolve after `await this.cache.get`: a hit is returned, a miss goes on to
\* makeRequest
AfterGet(p) ==
    /\ procs[p].pc = "gotCache"
    /\ procs' = [procs EXCEPT ![p] =
          IF procs[p].cached # Null
          THEN [procs[p] EXCEPT !.pc = "done", !.result = procs[p].cached]
          ELSE StartFetch(procs[p])]
    /\ UNCHANGED <<discovery, config, cacheOpts, cache, stats, now, server, prev, ncalls, lastOp>>

\* update and withdraw, to their first await: validation, the API key, the
\* first fetch
Write(p, op, linkId) ==
    /\ CanCall(p)
    /\ ncalls' = ncalls + 1
    /\ prev' = [prev EXCEPT ![p] = Summary(procs[p])]
    /\ LET r == Begin(p, op, linkId, NoOptions)
       IN  procs' = [procs EXCEPT ![p] =
              IF ~ValidateLinkID(linkId) THEN Thrown(r, ValidationError)
              ELSE IF ~HasApiKey(config) THEN Thrown(r, ValidationError)
              ELSE StartFetch(r)]
    /\ UNCHANGED <<discovery, config, cacheOpts, cache, stats, now, server, lastOp>>

\* register, to its first await: the request is validated, then the API key,
\* then the first fetch
Register(p, targetUri) ==
    /\ CanCall(p)
    /\ ncalls' = ncalls + 1
    /\ prev' = [prev EXCEPT ![p] = Summary(procs[p])]
    /\ LET r == [Begin(p, "register", <<>>, NoOptions) EXCEPT !.targetUri = targetUri]
       IN  procs' = [procs EXCEPT ![p] =
              IF ~ValidateRegistrationRequest(targetUri) THEN Thrown(r, ValidationError)
              ELSE IF ~HasApiKey(config) THEN Thrown(r, ValidationError)
              ELSE StartFetch(r)]
    /\ UNCHANGED <<discovery, config, cacheOpts, cache, stats, now, server, lastOp>>

Update(p, linkId) == Write(p, "update", linkId)

Withdraw(p, linkId) == Write(p, "withdraw", linkId)

\* makeRequest called on its own
MakeRequest(p) ==
    /\ CanCall(p)
    /\ ncalls' = ncalls + 1
    /\ prev' = [prev EXCEPT ![p] = Summary(procs[p])]
    /\ procs' = [procs EXCEPT ![p] = StartFetch(Begin(p, "makeRequest", IdA, NoOptions))]
    /\ UNCHANGED <<discovery, config, cacheOpts, cache, stats, now, server, lastOp>>

\* The resolver answers the request in flight, or the attempt fails at the
\* network level (fetch rejects, or the timeout aborts it).  A write that is
\* answered with a 2xx status has changed the record.
Serve(p, statuses, maxAges) ==
    /\ procs[p].pc = "fetching"
    /\ \E x \in ResponsesTo(procs[p].op, server[procs[p].linkId], statuses, maxAges)
                 \cup {Failure} :
          /\ procs' = [procs EXCEPT ![p] = [@ EXCEPT !.pc = "served", !.resp = x]]
          /\ server' = IF x # Failure
                       THEN [server EXCEPT ![procs[p].linkId] = x.ver]
                       ELSE server
    /\ UNCHANGED <<discovery, config, cacheOpts, cache, stats, now, prev, ncalls, lastOp>>

\* A loop that retries every response that is not ok
AfterFetchRetryNotOk(x, attempt, retries) ==
    IF x = Failure
    THEN IF attempt < retries THEN "retry" ELSE "throw"
    ELSE IF IsOk(x.status) THEN "return"
    ELSE IF x.status >= 400 /\ attempt < retries THEN "retry"
    ELSE "return"

\* A loop that also waits after its last failed attempt
AfterFetchWaitsAfterLast(x, attempt, retries) ==
    IF x = Failure
    THEN IF attempt <= retries THEN "retry" ELSE "throw"
    ELSE IF IsOk(x.status) \/ x.status >= 400 THEN "return"
    ELSE IF x.status >= 500 /\ attempt < retries THEN "retry"
    ELSE "return"

\* makeRequest, one turn of the loop once fetch has settled with x: the
\* response is returned, or the loop waits and goes on to the next attempt, or
\* the loop ends and NetworkError is thrown
AfterFetch(x, attempt, retries) ==
    IF x = Failure
    THEN IF attempt < retries THEN "retry" ELSE "throw"
    ELSE IF IsOk(x.status) \/ x.status >= 400 THEN "return"
    ELSE IF x.status >= 500 /\ attempt < retries THEN "retry"
    ELSE "return"

\* makeRequest after `await fetch`: the body of the loop after the fetch, and
\* the throw that follows the loop
Receive(p) ==
    LET r == procs[p]
        x == r.resp
        seen == [r EXCEPT !.outcomes =
                              Append(@, IF x = Failure THEN 0 ELSE x.status),
                          \* clearTimeout(timeoutId), reached when fetch resolves
                          !.timers = IF x = Failure THEN @ ELSE @ \ {r.controller}]
        returned == [seen EXCEPT !.pc =
                        IF r.op = "makeRequest" THEN "done" ELSE "gotResponse"]
        delayed == [seen EXCEPT !.pc = "delaying",
                                !.waits = Append(@, BackoffMs(r.attempt))]
    IN
    /\ r.pc = "served"
    /\ procs' = [procs EXCEPT ![p] =
          CASE AfterFetch(x, r.attempt, config.retries) = "return" -> returned
            [] AfterFetch(x, r.attempt, config.retries) = "retry" -> delayed
            [] OTHER -> Thrown(seen, NetworkError)]
    /\ UNCHANGED <<discovery, config, cacheOpts, cache, stats, now, server, prev, ncalls, lastOp>>

\* makeRequest after `await this.delay(...)`: the next attempt
Wake(p) ==
    /\ procs[p].pc = "delaying"
    /\ procs' = [procs EXCEPT ![p] = StartFetch(procs[p])]
    /\ UNCHANGED <<discovery, config, cacheOpts, cache, stats, now, server, prev, ncalls, lastOp>>

\* A store that does not look at the status of the response
ShouldStoreAnyStatus(x) == config.caching

\* resolve: whether the result is stored (this.config.caching && response.ok)
ShouldStore(x) == config.caching /\ IsOk(x.status)

\* resolve after makeRequest has returned the response x: the result and cache.set
ResolveResult(linkId, x) ==
    [type |-> IF x.redirected THEN "redirect" ELSE "metadata",
     linkId |-> linkId, cached |-> FALSE, ver |-> x.ver, status |-> x.status]

FinishResolve(p) ==
    LET r == procs[p]
        x == r.resp
        result == ResolveResult(r.linkId, x)
        ttl == ParseCacheControlHeader(x.maxAge, config)
        key == GenerateCacheKey(r.linkId, r.options)
        stored == MemSet(cache, cacheOpts, key, result, ttl, now)
    IN
    /\ r.pc = "gotResponse"
    /\ r.op = "resolve"
    /\ IF ~x.redirected /\ ~x.body.json
       THEN \* `await response.json()` rejects; the catch rethrows what is no Response
            /\ cache' = cache
            /\ procs' = [procs EXCEPT ![p] = Thrown(r, SyntaxError)]
       ELSE IF ShouldStore(x)
       THEN /\ cache' = stored
            /\ procs' = [procs EXCEPT ![p] =
                  [r EXCEPT !.pc = "done", !.result = result, !.sets = @ + 1,
                            !.storedExpires = MapGet(stored, key).expires]]
       ELSE /\ cache' = cache
            /\ procs' = [procs EXCEPT ![p] = [r EXCEPT !.pc = "done", !.result = result]]
    /\ UNCHANGED <<discovery, config, cacheOpts, stats, now, server, prev, ncalls, lastOp>>

\* A write that invalidates before it looks at the status of the response
FinishWriteInvalidatesFirst(p) ==
    LET r == procs[p]
        x == r.resp
        deleted == IF config.caching
                   THEN MemDelete(cache, InvalidationPattern(r.linkId))
                   ELSE cache
    IN
    /\ r.pc = "gotResponse"
    /\ r.op \in {"update", "withdraw"}
    /\ cache' = deleted
    /\ procs' = [procs EXCEPT ![p] =
          IF ~IsOk(x.status)
          THEN Thrown(r, HandleErrorResponse(x.status, x.body, r.linkId))
          ELSE [r EXCEPT !.pc = "done",
                         !.deletes = IF config.caching THEN @ + 1 ELSE @,
                         !.removed = KeysOf(cache) \ KeysOf(deleted)]]
    /\ UNCHANGED <<discovery, config, cacheOpts, stats, now, server, prev, ncalls, lastOp>>

\* update and withdraw after makeRequest has returned the response: the error
\* of a response that is not ok, or cache.delete
FinishWrite(p) ==
    LET r == procs[p]
        x == r.resp
    IN
    /\ r.pc = "gotResponse"
    /\ r.op \in {"update", "withdraw"}
    /\ IF ~IsOk(x.status)
       THEN /\ procs' = [procs EXCEPT ![p] =
                  Thrown(r, HandleErrorResponse(x.status, x.body, r.linkId))]
            /\ cache' = cache
       ELSE IF config.caching
       THEN /\ cache' = MemDelete(cache, InvalidationPattern(r.linkId))
            /\ procs' = [procs EXCEPT ![p] =
                  [r EXCEPT !.pc = "done", !.deletes = @ + 1,
                            !.removed = KeysOf(cache) \ KeysOf(cache')]]
       ELSE /\ cache' = cache
            /\ procs' = [procs EXCEPT ![p] = [r EXCEPT !.pc = "done"]]
    /\ UNCHANGED <<discovery, config, cacheOpts, stats, now, server, prev, ncalls, lastOp>>

\* register after makeRequest has returned the response: the error of a
\* response that is not ok, or the parsed body
FinishRegister(p) ==
    LET r == procs[p]
        x == r.resp
    IN
    /\ r.pc = "gotResponse"
    /\ r.op = "register"
    /\ procs' = [procs EXCEPT ![p] =
          IF ~IsOk(x.status) THEN Thrown(r, HandleErrorResponse(x.status, x.body, <<>>))
          ELSE IF ~x.body.json THEN Thrown(r, SyntaxError)
          ELSE [r EXCEPT !.pc = "done",
                         !.result = [type |-> "registration", status |-> x.status]]]
    /\ UNCHANGED <<discovery, config, cacheOpts, cache, stats, now, server, prev, ncalls, lastOp>>

\* Time passes
Tick ==
    /\ now < MaxTicks * TickMs
    /\ now' = now + TickMs
    /\ UNCHANGED <<discovery, config, cacheOpts, cache, stats, server, procs, prev, ncalls, lastOp>>

Step(p, ids, optionSets, statuses, maxAges) ==
    \/ \E id \in ids, o \in optionSets : Resolve(p, id, o)
    \/ \E id \in ids : Update(p, id)
    \/ \E id \in ids : Withdraw(p, id)
    \/ AfterGet(p)
    \/ Serve(p, statuses, maxAges)
    \/ Receive(p)
    \/ Wake(p)
    \/ FinishResolve(p)
    \/ FinishWrite(p)

\* One caller: the operations run one after the other
Next == Step(1, {IdA, IdShort}, OptionSets, ClientStatuses, MaxAges) \/ Tick

Spec == Init /\ [][Next]_vars

\* Two callers: their operations interleave at every await
NextConc == \E p \in Procs : Step(p, {IdA}, {NoOptions}, {200, 404}, MaxAges)

SpecConc == Init /\ [][NextConc]_vars

\* One caller, every identifier of the model, default options
NextValidation == Step(1, Ids, {NoOptions}, {200}, MaxAges)

SpecValidation == Init /\ [][NextValidation]_vars

\* Options that differ in the timestamp only
VariantOptions ==
    {NoOptions,
     [NoOptions EXCEPT !.timestamp = <<"2","0","2","4">>],
     [NoOptions EXCEPT !.timestamp = <<"2","0","2","5">>]}

\* Cache-Control of a 200 response: no max-age, max-age=0, max-age=2
VariantMaxAges == {-1, 0, 2}

\* One caller, two valid identifiers, options that differ in the timestamp,
\* a resolver that answers 200 with every max-age of the model
NextVariants == Step(1, ValidIds, VariantOptions, {200}, VariantMaxAges) \/ Tick

SpecVariants == Init /\ [][NextVariants]_vars

\* The targetUri of a registration request: missing, relative, without a
\* host, http, https, and absolute with another scheme
TargetUris ==
    {<<>>,
     <<"/","d">>,
     <<"e",".","o","r","g">>,
     <<"h","t","t","p",":","/","/">>,
     <<"h","t","t","p",":","/","/","e">>,
     <<"h","t","t","p","s",":","/","/","e">>,
     <<"f","t","p",":","/","/","e">>,
     <<"m","a","i","l","t","o",":","a">>}

\* Statuses the resolver answers a write with
WriteStatuses == {200, 400}

\* One caller that registers, resolves, updates and withdraws
NextRegister ==
    \/ \E u \in TargetUris : Register(1, u)
    \/ FinishRegister(1)
    \/ Step(1, {IdA}, {NoOptions}, WriteStatuses, {-1})

SpecRegister == Init /\ [][NextRegister]_vars

\* One caller that resolves with and without bypassCache
NextBypass ==
    Step(1, {IdA}, {NoOptions, [NoOptions EXCEPT !.bypassCache = TRUE]}, {200, 404}, MaxAges)
    \/ Tick

SpecBypass == Init /\ [][NextBypass]_vars

\* The transport alone: makeRequest called on its own, for every retries value
NextTransport == MakeRequest(1) \/ Serve(1, Statuses, MaxAges) \/ Receive(1) \/ Wake(1)

SpecTransport == InitTransport /\ [][NextTransport]_vars


(***************************************************************************)
(* MemoryCache on its own: set, get, delete and clear called directly,     *)
(* with the clock advancing in between.                                    *)
(***************************************************************************)
\* Keys are any strings, the empty string included
CacheKeys == {<<"k","1">>, <<"k","2">>, <<>>}

CachePatterns == {<<"k","1">>, <<"k","*">>, <<"*">>, <<"k">>}

CacheValues == {[type |-> "value", v |-> n] : n \in 1..2}

\* ttl arguments of set, in seconds; 0: not given
CacheTTLs == {0, 1, 3}

InitCache ==
    /\ config \in [caching : {TRUE}, hasApiKey : {FALSE}, retries : {DefaultRetries},
                   cacheTTL : {DefaultCacheTTL}]
    /\ cacheOpts \in {MemoryCacheOptions(m, d) : m \in {0, 2}, d \in {0, 1}}
    /\ cache = <<>>
    /\ stats = [hits |-> 0, misses |-> 0]
    /\ now = 0
    /\ server = [id \in Ids |-> 0]
    /\ procs = [p \in Procs |-> IdleProc]
    /\ prev = [p \in Procs |-> NoCall]
    /\ ncalls = 0
    /\ lastOp = [op |-> "none"]
    /\ discovery = NoDiscovery

CacheCall(op, key, ret) ==
    /\ ncalls < MaxCacheOps
    /\ ncalls' = ncalls + 1
    /\ lastOp' = [op |-> op, key |-> key, ret |-> ret, n |-> ncalls + 1,
                  sizeBefore |-> GetStats(cache, stats).size,
                  gets |-> IF op = "clear" THEN 0
                           ELSE (IF lastOp.op = "none" THEN 0 ELSE lastOp.gets)
                                + (IF op = "get" THEN 1 ELSE 0)]
    /\ UNCHANGED <<discovery, config, cacheOpts, now, server, procs, prev>>

CacheGet(key) ==
    LET g == MemGet(cache, stats, key, now) IN
    /\ CacheCall("get", key, g.ret)
    /\ cache' = g.cache
    /\ stats' = g.stats

CacheSet(key, value, ttl) ==
    /\ CacheCall("set", key, Null)
    /\ cache' = MemSet(cache, cacheOpts, key, value, ttl, now)
    /\ stats' = stats

CacheDelete(pattern) ==
    /\ CacheCall("delete", pattern, Null)
    /\ cache' = MemDelete(cache, pattern)
    /\ stats' = stats

\* MemoryCache.clear
CacheClear ==
    /\ CacheCall("clear", <<>>, Null)
    /\ cache' = MemClear(cache, stats).cache
    /\ stats' = MemClear(cache, stats).stats

NextCache ==
    \/ \E k \in CacheKeys : CacheGet(k)
    \/ \E k \in CacheKeys, v \in CacheValues, ttl \in CacheTTLs : CacheSet(k, v, ttl)
    \/ \E pat \in CachePatterns : CacheDelete(pat)
    \/ CacheClear
    \/ Tick

SpecCache == InitCache /\ [][NextCache]_vars


(***************************************************************************)
(* The error classifier and isRetryableError on their own: an error is      *)
(* raised by handleErrorResponse or constructed directly, and is then       *)
(* handed to isRetryableError.                                              *)
(***************************************************************************)
\* Statuses of the responses handed to handleErrorResponse
ErrorStatuses == {400, 401, 403, 404, 410, 418, 422, 429, 500, 503}

Tombstones == {[reason |-> "superseded"], [reason |-> "legal"]}

ErrorBodies == {TextBody, JsonBody(Undefined)} \cup {JsonBody(t) : t \in Tombstones}

\* The linkId argument of handleErrorResponse; <<>>: not given (register)
ErrorLinkIds == {<<>>, IdA, IdDot}

\* Errors constructed without a response
ConstructedErrors ==
    {NetworkError, ValidationError, TimeoutError, AuthenticationError,
     AuthorizationError, RateLimitError}
    \cup {NetworkErrorWith(c) : c \in {404, 500, 503}}

NoInput == [status |-> 0, body |-> TextBody, linkId |-> <<>>]

\* handleErrorResponse(response, linkId) is called and throws
Classify(status, body, linkId) ==
    /\ lastOp' = [op |-> "handleErrorResponse",
                  input |-> [status |-> status, body |-> body, linkId |-> linkId],
                  error |-> HandleErrorResponse(status, body, linkId),
                  from |-> "handleErrorResponse", ret |-> Null]
    /\ UNCHANGED <<discovery, config, cacheOpts, cache, stats, now, server, procs, prev, ncalls>>

\* An error is constructed
Construct(error) ==
    /\ lastOp' = [op |-> "new", input |-> NoInput, error |-> error,
                  from |-> "new", ret |-> Null]
    /\ UNCHANGED <<discovery, config, cacheOpts, cache, stats, now, server, procs, prev, ncalls>>

\* isRetryableError(error) is called with the error at hand
CheckRetryable ==
    /\ lastOp.op \in {"handleErrorResponse", "new"}
    /\ lastOp' = [lastOp EXCEPT !.op = "isRetryableError",
                                !.ret = IsRetryableError(lastOp.error)]
    /\ UNCHANGED <<discovery, config, cacheOpts, cache, stats, now, server, procs, prev, ncalls>>

NextErrors ==
    \/ \E st \in ErrorStatuses, b \in ErrorBodies, id \in ErrorLinkIds : Classify(st, b, id)
    \/ \E e \in ConstructedErrors : Construct(e)
    \/ CheckRetryable

SpecErrors == InitCache /\ [][NextErrors]_vars


(***************************************************************************)
(* ResolverDiscovery on its own: discover is called for a domain, the fetch *)
(* of the well-known document settles, and time passes.                     *)
(***************************************************************************)
Domains == {"a.example", "b.example"}

\* data.resolver.endpoints.resolve of a well-known document
Endpoints ==
    {<<"https://r.example", ResolveTemplate>>, <<"https://r.example/v1">>,
     <<ResolveTemplate>>}

\* How the fetch of the well-known document can end: a network error, a
\* status that is not 2xx, a body that is not JSON, the body null, an object
\* without resolver.endpoints.resolve, a resolve endpoint that is no string,
\* a document with resolver.endpoints.resolve, and a document of the shape
\* {issuer, endpoints, policies}
WellKnownOutcomes ==
    {[kind |-> k, endpoint |-> <<>>] :
        k \in {"networkError", "notOk", "notJson", "null", "noResolver",
               "resolveNotString"}}
    \cup {[kind |-> k, endpoint |-> e] : k \in {"document", "documented"}, e \in Endpoints}

\* The clock is observed every half TTL of the discovery cache
DiscoveryTickMs == (DiscoveryTTL \div 2) * MsPerSecond

\* discover(domain), to its first await: the cache check, then the fetch of
\* discoverWellKnown
Discover(domain) ==
    LET c == [IdleDiscover EXCEPT !.domain = domain, !.startedAt = now] IN
    /\ discovery.call.pc \in {"idle", "done"}
    /\ ncalls < MaxCalls
    /\ ncalls' = ncalls + 1
    /\ discovery' =
          [discovery EXCEPT
             !.last = discovery.call,
             !.call = IF DiscoveryHit(discovery.map, domain, now)
                      THEN [c EXCEPT !.pc = "done", !.returnedAt = now,
                                     !.result = MapGet(discovery.map, domain).value]
                      ELSE [c EXCEPT !.pc = "fetching", !.fetches = 1]]
    /\ UNCHANGED <<config, cacheOpts, cache, stats, now, server, procs, prev, lastOp>>

\* discover after `await this.discoverWellKnown(domain)`: the default is added
\* to an empty list, the list is cached and returned; if discoverWellKnown
\* threw, the catch returns the default and caches nothing
WellKnownSettles(outcome) ==
    LET c == discovery.call
        w == DiscoverWellKnown(outcome)
        resolvers == PushDefault(w.value)
        done == [c EXCEPT !.pc = "done", !.returnedAt = now, !.outcome = outcome.kind,
                          !.endpoint = outcome.endpoint]
    IN
    /\ c.pc = "fetching"
    /\ discovery' =
          IF w.threw
          THEN [discovery EXCEPT !.call = [done EXCEPT !.result = <<DefaultResolver>>]]
          ELSE [discovery EXCEPT
                  !.call = [done EXCEPT !.result = resolvers],
                  !.map = MapSet(discovery.map, c.domain, resolvers,
                                 now + DiscoveryTTL * MsPerSecond)]
    /\ UNCHANGED <<config, cacheOpts, cache, stats, now, server, procs, prev, ncalls, lastOp>>

DiscoveryTick ==
    /\ now < MaxDiscoveryTicks * DiscoveryTickMs
    /\ now' = now + DiscoveryTickMs
    /\ UNCHANGED <<discovery, config, cacheOpts, cache, stats, server, procs, prev, ncalls, lastOp>>

NextDiscovery ==
    \/ \E d \in Domains : Discover(d)
    \/ \E o \in WellKnownOutcomes : WellKnownSettles(o)
    \/ DiscoveryTick

\* new ResolverDiscovery() beside a client with the default configuration
InitDiscovery ==
    InitWith([caching : {TRUE}, hasApiKey : {FALSE}, retries : {DefaultRetries},
              cacheTTL : {DefaultCacheTTL}])

SpecDiscovery == InitDiscovery /\ [][NextDiscovery]_vars


(***************************************************************************)
(* The identifier validators of the JavaScript and of the Java client on    *)
(* their own.                                                               *)
(***************************************************************************)
ValidatorLengths == {0, 1, 31, 32, 33, 63, 64, 65}

ValidatorChars == {"a", "Z", "9", ".", "_", "~", "-", ":", " ", "/", "+", "%"}

\* Strings of one character repeated, strings of 'a' that end in another
\* character, and the identifier of the README
ValidatorInputs ==
    {Rep(c, n) : c \in ValidatorChars, n \in ValidatorLengths}
    \cup {Rep("a", n - 1) \o <<c>> : c \in ValidatorChars, n \in ValidatorLengths \ {0}}
    \cup {IdReadme}

\* validateLinkID(linkId) of the JavaScript client is called
ValidateJs(linkId) ==
    /\ lastOp' = [op |-> "validateLinkID", id |-> linkId, ok |-> ValidateLinkID(linkId)]
    /\ UNCHANGED <<discovery, config, cacheOpts, cache, stats, now, server, procs, prev, ncalls>>

\* validateLinkId(linkId) of the Java client is called
ValidateJava(linkId) ==
    /\ lastOp' = [op |-> "validateLinkId", id |-> linkId, ok |-> ValidateLinkIdJava(linkId)]
    /\ UNCHANGED <<discovery, config, cacheOpts, cache, stats, now, server, procs, prev, ncalls>>

NextValidators ==
    \/ \E id \in ValidatorInputs : ValidateJs(id)
    \/ \E id \in ValidatorInputs : ValidateJava(id)

SpecValidators == InitTransport /\ [][NextValidators]_vars


(***************************************************************************)
(* generateCacheKey on its own: the keys of two resolve calls.              *)
(***************************************************************************)
\* The options the key is derived from; format and language are any strings
KeyOptions ==
    [format : {<<>>, <<"a">>, <<"a",":","b">>},
     language : {<<>>, <<"c">>, <<"b",":","c">>},
     version : {0, 1},
     timestamp : {<<>>},
     metadata : BOOLEAN,
     bypassCache : {FALSE}]

\* The first call: resolve(linkId, options) derives its key
FirstKey(linkId, options) ==
    /\ lastOp.op # "firstKey"
    /\ lastOp' = [op |-> "firstKey",
                  a |-> [linkId |-> linkId, options |-> options],
                  keyA |-> GenerateCacheKey(linkId, options)]
    /\ UNCHANGED <<discovery, config, cacheOpts, cache, stats, now, server, procs, prev, ncalls>>

\* The second call derives its key
SecondKey(linkId, options) ==
    /\ lastOp.op = "firstKey"
    /\ lastOp' = [op |-> "generateCacheKey", a |-> lastOp.a, keyA |-> lastOp.keyA,
                  b |-> [linkId |-> linkId, options |-> options],
                  keyB |-> GenerateCacheKey(linkId, options)]
    /\ UNCHANGED <<discovery, config, cacheOpts, cache, stats, now, server, procs, prev, ncalls>>

NextKeys ==
    \/ \E id \in ValidIds, o \in KeyOptions : FirstKey(id, o)
    \/ \E id \in ValidIds, o \in KeyOptions : SecondKey(id, o)

SpecKeys == InitTransport /\ [][NextKeys]_vars


(***************************************************************************)
(* The transport with its timeout timers: a pending timer fires at some     *)
(* moment, during its own attempt, during a later attempt, or after         *)
(* makeRequest has returned.                                                *)
(***************************************************************************)
\* A timer that aborts the controller of the attempt in progress
AbortTargetCurrent(r, k) == r.controller

\* The controller the timer of controller k aborts: `controller` is declared
\* in the body of the loop, so the callback closes over its own attempt's
AbortTarget(r, k) == k

\* makeRequest is called again by a caller whose earlier timers may still be
\* pending
TimedMakeRequest(p) ==
    /\ CanCall(p)
    /\ ncalls' = ncalls + 1
    /\ prev' = [prev EXCEPT ![p] = Summary(procs[p])]
    /\ procs' = [procs EXCEPT ![p] =
          StartFetch([Begin(p, "makeRequest", IdA, NoOptions) EXCEPT
                         !.controller = procs[p].controller,
                         !.timers = procs[p].timers,
                         !.fired = procs[p].fired])]
    /\ UNCHANGED <<discovery, config, cacheOpts, cache, stats, now, server, lastOp>>

\* The timer of controller k fires: controller.abort().  A fetch in flight
\* on the aborted controller rejects; abort has no effect on a fetch that
\* has settled.  `fired` keeps the last timer that fired, with the latest
\* controller and the position of the caller at that moment.
TimerFires(p, k) ==
    LET r == procs[p]
        f == [r EXCEPT !.timers = @ \ {k},
                       !.fired = <<k, r.controller, r.pc>>]
    IN
    /\ k \in r.timers
    /\ procs' = [procs EXCEPT ![p] =
          IF r.pc = "fetching" /\ r.controller = AbortTarget(r, k)
          THEN [f EXCEPT !.pc = "served", !.resp = Failure]
          ELSE f]
    /\ UNCHANGED <<discovery, config, cacheOpts, cache, stats, now, server, prev, ncalls, lastOp>>

NextTimers ==
    \/ TimedMakeRequest(1)
    \/ Serve(1, {200}, {-1})
    \/ Receive(1)
    \/ Wake(1)
    \/ \E k \in 1..(MaxCalls * config.retries) : TimerFires(1, k)

InitTimers ==
    InitWith([caching : {TRUE}, hasApiKey : {FALSE}, retries : {2},
              cacheTTL : {DefaultCacheTTL}])

SpecTimers == InitTimers /\ [][NextTimers]_vars


(***************************************************************************)
(* The constructor: a client is constructed from a given configuration and  *)
(* then used by one caller.                                                 *)
(***************************************************************************)
InitConstructed ==
    \E given \in GivenConfigs :
        /\ config = NewLinkIDClient(given).config
        /\ cacheOpts = MemoryCacheOptions(ClientMaxSize, config.cacheTTL)
        /\ cache = <<>>
        /\ stats = [hits |-> 0, misses |-> 0]
        /\ now = 0
        /\ server = [id \in Ids |-> 0]
        /\ procs = [p \in Procs |-> IdleProc]
        /\ prev = [p \in Procs |-> NoCall]
        /\ ncalls = 0
        /\ lastOp = [op |-> "new LinkIDClient", given |-> given,
                     threw |-> NewLinkIDClient(given).threw]
        /\ discovery = NoDiscovery

\* A client whose constructor has returned is used: makeRequest on its own,
\* and the operations of the client
NextConstructed ==
    /\ ~lastOp.threw
    /\ \/ MakeRequest(1)
       \/ Step(1, {IdA}, {NoOptions}, {200, 500}, {-1})

SpecConstructed == InitConstructed /\ [][NextConstructed]_vars


(***************************************************************************)
(* The operations of a constructed client, run to their end: every fetch    *)
(* settles or is aborted by its timeout, every delay ends, and every        *)
(* continuation of an await is run.                                         *)
(***************************************************************************)
\* The configurations handed to the constructor: an API key, and retries
\* negative, not given, and positive
LiveConfigs ==
    [resolverUrl : {<<>>},
     hasApiKey : {TRUE},
     retries : {-1, 0, 1, 2},
     caching : {TRUE},
     cacheTTL : {0}]

InitLive ==
    \E given \in LiveConfigs :
        /\ config = NewLinkIDClient(given).config
        /\ cacheOpts = MemoryCacheOptions(ClientMaxSize, config.cacheTTL)
        /\ cache = <<>>
        /\ stats = [hits |-> 0, misses |-> 0]
        /\ now = 0
        /\ server = [id \in Ids |-> 0]
        /\ procs = [p \in Procs |-> IdleProc]
        /\ prev = [p \in Procs |-> NoCall]
        /\ ncalls = 0
        /\ lastOp = [op |-> "new LinkIDClient", given |-> given,
                     threw |-> NewLinkIDClient(given).threw]
        /\ discovery = NoDiscovery

\* The steps that follow an await of the caller
Continue(p) ==
    \/ AfterGet(p)
    \/ Serve(p, {200, 500}, {-1})
    \/ Receive(p)
    \/ Wake(p)
    \/ FinishResolve(p)
    \/ FinishWrite(p)
    \/ FinishRegister(p)

\* resolve, register, update or withdraw is called
Call(p) ==
    \/ Resolve(p, IdA, NoOptions)
    \/ Register(p, <<"h","t","t","p","s",":","/","/","e">>)
    \/ Update(p, IdA)
    \/ Withdraw(p, IdA)

NextLive == Call(1) \/ Continue(1)

SpecLive == InitLive /\ [][NextLive]_vars /\ WF_vars(Continue(1))


(***************************************************************************)
(* The Java client (LinkIdClient.java): resolve called from two threads.   *)
(* The cache is a ConcurrentHashMap: each get, remove and put is atomic,   *)
(* and the threads interleave between any two of them.                     *)
(***************************************************************************)
\* cacheKey(linkId, options) for the default options
JavaCacheKey(linkId) ==
    <<"l","i","n","k","i","d",":">> \o linkId
        \o <<"|fmt=", "|lang=", "|ver=", "|at=", "|meta=", "0">>

\* ConcurrentHashMap.get: the entry, or null
JavaMapGet(c, key) == IF MapHas(c, key) THEN MapGet(c, key) ELSE Null

\* Instant.now().isAfter(entry.expiresAt())
JavaExpired(entry, t) == t > entry.expires

\* copyWithCached
CopyWithCached(result) == [result EXCEPT !.cached = TRUE]

\* isRedirect
IsRedirect(status) == status \in {301, 302, 303, 307, 308}

\* determineCacheTtl; maxAge = -1 stands for a header that is absent or
\* carries no max-age=N
DetermineCacheTtl(maxAge, cfg) == IF maxAge = -1 THEN cfg.cacheTTL ELSE maxAge

ValidationException == [name |-> "ValidationException", code |-> "VALIDATION_ERROR"]

NetworkException == [name |-> "NetworkException", code |-> "NETWORK_ERROR"]

\* handleError: the exception thrown for a status
JavaHandleError(status, linkId) ==
    CASE status = 404 -> [name |-> "NotFoundException", code |-> "NOT_FOUND"]
      [] status = 410 -> [name |-> "WithdrawnException", code |-> "WITHDRAWN"]
      [] status \in {400, 422} -> ValidationException
      [] status = 401 -> [name |-> "LinkIdException", code |-> "UNAUTHORIZED"]
      [] status = 403 -> [name |-> "LinkIdException", code |-> "FORBIDDEN"]
      [] status = 429 -> [name |-> "LinkIdException", code |-> "RATE_LIMITED"]
      [] OTHER -> [name |-> "LinkIdException", code |-> "HTTP_ERROR"]

\* Statuses the resolver answers a Java resolve with
JavaStatuses == {200, 302, 404}

\* Cache-Control of a response: no max-age, or max-age=0
JavaMaxAges == {-1, 0}

\* The responses to a Java resolve
JavaResponses(ver) ==
    {Response(st, IsRedirect(st), ver, m, JsonBody(Undefined)) :
        st \in JavaStatuses, m \in JavaMaxAges}

\* resolve, up to and including cache.get in getFromCache
JavaResolve(p, linkId) ==
    LET r == Begin(p, "resolve", linkId, NoOptions) IN
    /\ CanCall(p)
    /\ ncalls' = ncalls + 1
    /\ prev' = [prev EXCEPT ![p] = Summary(procs[p])]
    /\ procs' = [procs EXCEPT ![p] =
          IF ~ValidateLinkIdJava(linkId) THEN Thrown(r, ValidationException)
          ELSE IF ~config.caching THEN [r EXCEPT !.pc = "sending"]
          ELSE [r EXCEPT !.pc = "gotEntry", !.gets = 1,
                         !.cached = JavaMapGet(cache, JavaCacheKey(linkId))]]
    /\ UNCHANGED <<discovery, config, cacheOpts, cache, stats, now, server, lastOp>>

\* getFromCache after cache.get: no entry, an expired entry (cache.remove is
\* next), or a hit, which resolve returns
JavaCheckEntry(p) ==
    LET r == procs[p] IN
    /\ r.pc = "gotEntry"
    /\ procs' = [procs EXCEPT ![p] =
          IF r.cached = Null THEN [r EXCEPT !.pc = "sending"]
          ELSE IF JavaExpired(r.cached, now) THEN [r EXCEPT !.pc = "removing"]
          ELSE [r EXCEPT !.pc = "done", !.result = CopyWithCached(r.cached.value)]]
    /\ UNCHANGED <<discovery, config, cacheOpts, cache, stats, now, server, prev, ncalls, lastOp>>

\* getFromCache: cache.remove(key), whatever the key is mapped to by now
JavaRemove(p) ==
    LET r == procs[p]
        key == JavaCacheKey(r.linkId)
    IN
    /\ r.pc = "removing"
    /\ cache' = MapDelete(cache, key)
    /\ procs' = [procs EXCEPT ![p] =
          [r EXCEPT !.pc = "sending", !.deletes = @ + 1,
                    !.removed = {e.expires : e \in {JavaMapGet(cache, key)} \ {Null}}]]
    /\ UNCHANGED <<discovery, config, cacheOpts, stats, now, server, prev, ncalls, lastOp>>

\* send: the response of the resolver, or NetworkException when every attempt
\* has failed
JavaSend(p) ==
    LET r == procs[p] IN
    /\ r.pc = "sending"
    /\ \E x \in JavaResponses(server[r.linkId]) \cup {Failure} :
          procs' = [procs EXCEPT ![p] =
             IF x = Failure
             THEN Thrown([r EXCEPT !.fetches = config.retries], NetworkException)
             ELSE [r EXCEPT !.pc = "received", !.fetches = @ + 1, !.resp = x]]
    /\ UNCHANGED <<discovery, config, cacheOpts, cache, stats, now, server, prev, ncalls, lastOp>>

\* resolve after send: the result of a 200 or of a redirect, and cache.put;
\* handleError throws for any other status
JavaFinish(p) ==
    LET r == procs[p]
        x == r.resp
        key == JavaCacheKey(r.linkId)
        result == ResolveResult(r.linkId, x)
        ttl == DetermineCacheTtl(x.maxAge, config)
        expiresAt == now + ttl * MsPerSecond
    IN
    /\ r.pc = "received"
    /\ IF x.status # 200 /\ ~IsRedirect(x.status)
       THEN /\ procs' = [procs EXCEPT ![p] = Thrown(r, JavaHandleError(x.status, r.linkId))]
            /\ cache' = cache
       ELSE IF config.caching
       THEN /\ cache' = MapSet(cache, key, result, expiresAt)
            /\ procs' = [procs EXCEPT ![p] =
                  [r EXCEPT !.pc = "done", !.result = result, !.sets = @ + 1,
                            !.storedExpires = expiresAt]]
       ELSE /\ cache' = cache
            /\ procs' = [procs EXCEPT ![p] = [r EXCEPT !.pc = "done", !.result = result]]
    /\ UNCHANGED <<discovery, config, cacheOpts, stats, now, server, prev, ncalls, lastOp>>

\* Two threads that call resolve, with the clock advancing
NextJava ==
    \/ \E p \in Procs, id \in {IdA, IdShort} : JavaResolve(p, id)
    \/ \E p \in Procs : JavaCheckEntry(p)
    \/ \E p \in Procs : JavaRemove(p)
    \/ \E p \in Procs : JavaSend(p)
    \/ \E p \in Procs : JavaFinish(p)
    \/ Tick

\* LinkIdClient.builder().build(), with caching on or off
InitJava ==
    InitWith([caching : BOOLEAN, hasApiKey : {FALSE}, retries : {DefaultRetries},
              cacheTTL : {DefaultCacheTTL}])

SpecJava == InitJava /\ [][NextJava]_vars


(***************************************************************************)
(* The claims.                                                             *)
(***************************************************************************)
Done(p) == procs[p].pc = "done"

IsWrite(op) == op \in {"update", "withdraw"}

\* The rule of the specification: 32 to 64 characters of [A-Za-z0-9._~-]
FailsIdRule(id) ==
    \/ Len(id) < 32
    \/ Len(id) > 64
    \/ \E i \in 1..Len(id) : id[i] \notin IdChars

\* C1: for every identifier that fails the length or the character rule,
\* resolve, update and withdraw raise ValidationError, and the call has made
\* no fetch call and no cache get, set or delete call.
C1_InvalidIdFailsFast ==
    \A p \in Procs :
        (Done(p) /\ procs[p].op \in {"resolve", "update", "withdraw"}
                 /\ FailsIdRule(procs[p].linkId))
        => /\ procs[p].error = ValidationError
           /\ procs[p].fetches = 0
           /\ procs[p].gets = 0 /\ procs[p].sets = 0 /\ procs[p].deletes = 0

\* An identifier of 65 characters has been refused by withdraw while the
\* cache holds an entry
C1_Witness ==
    /\ Done(1) /\ procs[1].op = "withdraw" /\ procs[1].linkId = IdLong
    /\ procs[1].error = ValidationError /\ procs[1].fetches = 0
    /\ cache # <<>>

\* The second of two resolve calls with the same identifier and options, the
\* first of which stored the result of a successful response, made within the
\* expiry of the stored entry
SecondWithinTTL(p) ==
    /\ Done(p) /\ procs[p].op = "resolve"
    /\ config.caching
    /\ prev[p].op = "resolve"
    /\ prev[p].linkId = procs[p].linkId
    /\ prev[p].options = procs[p].options
    /\ procs[p].startedAt <= prev[p].expires

\* C2, as stated: with caching enabled, the second of two resolve calls with
\* the same identifier and the same options, made within the TTL of the entry
\* the first one stored, issues no fetch call.
C2_AsStated == SecondWithinTTL(1) => procs[1].fetches = 0

\* C2, amended: the same, for options that do not set bypassCache.
C2_SecondCallNoFetch ==
    (SecondWithinTTL(1) /\ ~procs[1].options.bypassCache) => procs[1].fetches = 0

\* The second call was made at the very expiry instant of the stored entry
C2_Witness ==
    /\ SecondWithinTTL(1) /\ ~procs[1].options.bypassCache
    /\ procs[1].startedAt = prev[1].expires
    /\ procs[1].fetches = 0

\* C3: a result resolve returns from the cache has cached = TRUE, a result
\* built from a network response has cached = FALSE.
C3_CachedFlag ==
    \A p \in Procs :
        (Done(p) /\ procs[p].op = "resolve" /\ procs[p].result # Null)
        => (procs[p].result.cached <=> procs[p].cached # Null)

\* C4, as stated: a resolve with bypassCache = TRUE, or on a client with
\* caching disabled, looks nothing up in the cache and issues at least one
\* fetch call.
C4_AsStated ==
    (Done(1) /\ procs[1].op = "resolve"
             /\ (procs[1].options.bypassCache \/ ~config.caching))
    => (procs[1].gets = 0 /\ procs[1].fetches >= 1)

\* C4, amended: the same, for an identifier that passes the length and
\* character rule.
C4_BypassAlwaysFetches ==
    (Done(1) /\ procs[1].op = "resolve"
             /\ ~FailsIdRule(procs[1].linkId)
             /\ (procs[1].options.bypassCache \/ ~config.caching))
    => (procs[1].gets = 0 /\ procs[1].fetches >= 1)

\* A resolve with bypassCache has fetched while the cache held an unexpired
\* entry for the same identifier
C4_Witness ==
    /\ Done(1) /\ procs[1].op = "resolve" /\ procs[1].options.bypassCache
    /\ config.caching
    /\ procs[1].fetches >= 1 /\ procs[1].gets = 0
    /\ prev[1].op = "resolve"
    /\ GenerateCacheKey(prev[1].linkId, prev[1].options)
         = GenerateCacheKey(procs[1].linkId, procs[1].options)
    /\ procs[1].startedAt <= prev[1].expires

\* A step that is a direct get(key) on the MemoryCache
IsGetOf(key) ==
    /\ ncalls' = ncalls + 1
    /\ lastOp'.op = "get"
    /\ lastOp'.key = key

\* C5: get(key) never returns a value whose expiry instant is earlier than the
\* current time; a get that finds such an entry returns a miss, removes the
\* entry (the size drops by one) and counts one miss.
C5_ExpiredIsMiss ==
    [][\A key \in CacheKeys :
        IsGetOf(key) =>
          /\ lastOp'.ret # Null =>
               /\ MapHas(cache, key)
               /\ MapGet(cache, key).expires >= now
               /\ MapGet(cache, key).value = lastOp'.ret
          /\ (MapHas(cache, key) /\ MapGet(cache, key).expires < now) =>
               /\ lastOp'.ret = Null
               /\ ~MapHas(cache', key)
               /\ GetStats(cache', stats').size = GetStats(cache, stats).size - 1
               /\ stats'.misses = stats.misses + 1
               /\ stats'.hits = stats.hits]_vars

\* A get has found an expired entry: it returned a miss and the cache is one
\* entry smaller
C5_Witness ==
    /\ lastOp.op = "get" /\ lastOp.ret = Null
    /\ Len(cache) = lastOp.sizeBefore - 1
    /\ stats.misses >= 1

\* C6: with caching enabled, a resolve(id, opts) that directly follows a
\* successful update(id) or withdraw(id) issues a network request and does not
\* return a cached result, for every option set; this covers the case where an
\* earlier resolve(id, opts) had cached a result.
C6_ResolveAfterWrite ==
    (Done(1) /\ procs[1].op = "resolve" /\ config.caching
             /\ IsWrite(prev[1].op) /\ prev[1].linkId = procs[1].linkId)
    => (procs[1].fetches >= 1 /\ procs[1].cached = Null)

\* The write removed the entry an earlier resolve had cached under the key of
\* the resolve that follows it, which asks for a format
C6_Witness ==
    /\ Done(1) /\ procs[1].op = "resolve" /\ config.caching
    /\ IsWrite(prev[1].op) /\ prev[1].linkId = procs[1].linkId
    /\ GenerateCacheKey(procs[1].linkId, procs[1].options) \in prev[1].removed
    /\ procs[1].options.format # <<>>
    /\ procs[1].fetches >= 1

\* C7: once a write of id has completed successfully, the cache holds no entry
\* for id built from a response the resolver produced before the write.
C7_NoStaleEntryAfterWrite ==
    \A q \in Procs :
        (Done(q) /\ IsWrite(procs[q].op) /\ procs[q].error = NoError)
        => \A i \in 1..Len(cache) :
              cache[i].value.linkId = procs[q].linkId
              => cache[i].value.ver >= procs[q].resp.ver

\* makeRequest has ended and every attempt was answered as `answers` says
\* (0: the attempt failed at the network level)
EveryAttempt(p, answers) ==
    /\ Done(p) /\ procs[p].op = "makeRequest"
    /\ procs[p].outcomes # <<>>
    /\ \A i \in 1..Len(procs[p].outcomes) : procs[p].outcomes[i] \in answers

\* C8: with retries = 3 and a 500 answer on every attempt, makeRequest makes
\* exactly 3 fetch calls, waits 1 s and then 2 s between them and raises
\* NetworkError.
C8_Retries5xx ==
    (EveryAttempt(1, {500}) /\ config.retries = 3)
    => /\ procs[1].fetches = 3
       /\ procs[1].waits = <<1000, 2000>>
       /\ procs[1].error = NetworkError

\* C9: when every attempt fails at the network level, makeRequest makes
\* exactly `retries` fetch calls, waits 2^(k-1) seconds after failed attempt k
\* for every k < retries, does not wait after the last attempt and raises
\* NetworkError.
C9_NetworkFailureBackoff ==
    /\ EveryAttempt(1, {0}) =>
          /\ procs[1].fetches = config.retries
          /\ procs[1].waits = [k \in 1..(config.retries - 1) |-> Pow2(k - 1) * 1000]
          /\ procs[1].error = NetworkError
    /\ procs[1].pc = "delaying" => procs[1].attempt < config.retries

\* Four attempts have failed: three waits, of 1, 2 and 4 seconds
C9_Witness ==
    /\ EveryAttempt(1, {0}) /\ config.retries = 4
    /\ procs[1].fetches = 4
    /\ procs[1].waits = <<1000, 2000, 4000>>
    /\ procs[1].error = NetworkError

Is4xx(status) == status >= 400 /\ status <= 499

\* C10, as stated: a response with a status in 400-499 is returned to the
\* caller after exactly one fetch call and with no backoff wait.
C10_AsStated ==
    (Done(1) /\ procs[1].op = "makeRequest" /\ procs[1].error = NoError
             /\ Is4xx(procs[1].resp.status))
    => (procs[1].fetches = 1 /\ procs[1].waits = <<>>)

\* C10, amended: the attempt that is answered with a status in 400-499 is the
\* last one: the response is returned to the caller with no further fetch call
\* and no backoff wait after it; when it answers the first attempt, exactly one
\* fetch call and no wait have been made.
C10_No4xxRetry ==
    \A i \in 1..Len(procs[1].outcomes) :
        Is4xx(procs[1].outcomes[i]) =>
            /\ i = Len(procs[1].outcomes)
            /\ procs[1].pc \in {"done", "gotResponse"}
            /\ procs[1].error = NoError
            /\ procs[1].resp.status = procs[1].outcomes[i]
            /\ procs[1].fetches = i
            /\ Len(procs[1].waits) = i - 1
            /\ i = 1 => procs[1].waits = <<>>

\* A 404 that answered the first attempt has been returned
C10_Witness ==
    /\ Done(1) /\ procs[1].op = "makeRequest" /\ procs[1].error = NoError
    /\ procs[1].resp.status = 404
    /\ procs[1].outcomes = <<404>>
    /\ procs[1].fetches = 1 /\ procs[1].waits = <<>>
    /\ config.retries = 3

\* A resolve has ended on a response of the resolver (not on a cache hit, a
\* refused identifier or a network failure)
ResolvedFrom(p, status) ==
    /\ Done(p) /\ procs[p].op = "resolve"
    /\ procs[p].resp # NoResp /\ procs[p].resp # Failure
    /\ procs[p].resp.status = status

\* C11: for an identifier that passes validation, a resolve the resolver
\* answers with status 404 raises NotFoundError whose linkId is the identifier
\* passed in, after exactly one fetch call.
C11_NotFoundOn404 ==
    ResolvedFrom(1, 404)
    => /\ procs[1].error = LinkIDNotFoundError(procs[1].linkId)
       /\ procs[1].fetches = 1

\* The errors of the SDK: every class of errors.ts extends LinkIDError
IsTypedError(error) == error # NoError /\ InstanceOf(error, "LinkIDError")

\* C12: resolve returns a result only when the response is a redirect or has
\* status 200; for every other final response status it raises a typed error
\* and returns no result.
C12_ResultOnlyOnRedirectOr200 ==
    \A st \in ClientStatuses \ {200} :
        (ResolvedFrom(1, st) /\ ~procs[1].resp.redirected)
        => (procs[1].result = Null /\ IsTypedError(procs[1].error))

\* The error kind the table of the specification gives for a status
KindOfStatus(status) ==
    CASE status \in {400, 422} -> "ValidationError"
      [] status = 401 -> "AuthenticationError"
      [] status = 403 -> "AuthorizationError"
      [] status = 404 -> "LinkIDNotFoundError"
      [] status = 410 -> "LinkIDWithdrawnError"
      [] status = 429 -> "RateLimitError"
      [] OTHER -> "LinkIDError"

\* C13: handleErrorResponse raises, for every status that is not a success,
\* the error kind of the table: ValidationError for 400 and 422,
\* AuthenticationError for 401, AuthorizationError for 403, NotFoundError for
\* 404, WithdrawnError for 410, RateLimitError for 429 and the generic HTTP
\* error for any other status.
C13_ClassifierTable ==
    lastOp.op = "handleErrorResponse"
    => /\ lastOp.error # NoError
       /\ lastOp.error.name = KindOfStatus(lastOp.input.status)
       /\ KindOfStatus(lastOp.input.status) = "LinkIDError"
             => lastOp.error.code = "HTTP_ERROR"

\* C14: handleErrorResponse, given status 410 and an identifier, raises
\* WithdrawnError whose linkId is the identifier passed in; its tombstone is
\* the tombstone of the body, unchanged, when the body has one, and is absent
\* when the body has none.
C14_TombstoneUnchanged ==
    (/\ lastOp.op = "handleErrorResponse"
     /\ lastOp.input.status = 410
     /\ lastOp.input.linkId # <<>>)
    => /\ lastOp.error.name = "LinkIDWithdrawnError"
       /\ lastOp.error.linkId = lastOp.input.linkId
       /\ lastOp.error.tombstone =
             IF lastOp.input.body.json THEN lastOp.input.body.tombstone ELSE Undefined

\* A 410 whose body carries a tombstone has been classified
C14_Witness ==
    /\ lastOp.op = "handleErrorResponse"
    /\ lastOp.input.status = 410
    /\ lastOp.input.linkId = IdDot
    /\ lastOp.input.body = JsonBody([reason |-> "legal"])
    /\ lastOp.error = LinkIDWithdrawnError(IdDot, [reason |-> "legal"])

\* C15: isRetryableError returns TRUE for a NetworkError that carries no
\* status code or a status of 500 or more, and FALSE for ValidationError and
\* for every error handleErrorResponse raises for a response with status 400,
\* 401, 403, 404, 410 or 422.
C15_RetryableTable ==
    lastOp.op = "isRetryableError"
    => /\ (/\ lastOp.error.name = "NetworkError"
           /\ ~HasStatusCode(lastOp.error) \/ lastOp.error.statusCode >= 500)
          => lastOp.ret = TRUE
       /\ lastOp.error = ValidationError => lastOp.ret = FALSE
       /\ (/\ lastOp.from = "handleErrorResponse"
           /\ lastOp.input.status \in {400, 401, 403, 404, 410, 422})
          => lastOp.ret = FALSE

\* The entries of the cache, as a set
Entries(c) == {c[i] : i \in 1..Len(c)}

\* C16: a resolve whose response is an error (not 2xx) or that raises stores
\* nothing in the cache: an entry is put into the cache only by a resolve that
\* ends without an error on a 2xx response, and only when caching is enabled.
C16_StoreOnlyOnSuccess ==
    [][/\ Entries(cache') \ Entries(cache) # {} =>
            /\ config.caching
            /\ procs[1].op = "resolve" /\ procs[1].pc = "gotResponse"
            /\ IsOk(procs[1].resp.status)
            /\ procs'[1].pc = "done" /\ procs'[1].error = NoError
            /\ procs'[1].sets = procs[1].sets + 1
       /\ (/\ procs'[1].pc = "done" /\ procs'[1].op = "resolve"
           /\ \/ procs'[1].error # NoError
              \/ ~config.caching
              \/ (procs'[1].resp # NoResp /\ ~IsOk(procs'[1].resp.status)))
          => (procs'[1].sets = 0 /\ Entries(cache') \subseteq Entries(cache))]_vars

\* With caching enabled a resolve has returned the result of a 404 and the
\* cache holds nothing under its key
C16_Witness ==
    /\ ResolvedFrom(1, 404) /\ config.caching
    /\ procs[1].result # Null /\ procs[1].sets = 0
    /\ ~MapHas(cache, GenerateCacheKey(procs[1].linkId, procs[1].options))

\* A step in which resolve stores its result
StoresResult ==
    /\ procs[1].op = "resolve" /\ procs[1].pc = "gotResponse"
    /\ procs'[1].sets = procs[1].sets + 1

\* C17: the entry a successful resolve stores expires N seconds after it was
\* stored when the response carries max-age=N, for every N >= 0, and after
\* the configured cacheTTL when the response carries no max-age.
C17_MaxAgeExpiry ==
    [][StoresResult =>
          LET x == procs[1].resp
              key == GenerateCacheKey(procs[1].linkId, procs[1].options)
          IN  MapGet(cache', key).expires =
                 now + (IF x.maxAge >= 0 THEN x.maxAge ELSE config.cacheTTL) * 1000]_vars

\* C18: generateCacheKey is deterministic and injective on (identifier,
\* format, language, version, metadata flag): two calls get the same key
\* exactly when they agree on all five.
C18_KeyInjective ==
    lastOp.op = "generateCacheKey" => ((lastOp.a = lastOp.b) <=> (lastOp.keyA = lastOp.keyB))

\* C19: two resolve calls for the same identifier that differ only in the
\* timestamp option never share a cache entry: the second is not answered
\* from the cache.
C19_TimestampVariants ==
    (/\ Done(1) /\ procs[1].op = "resolve"
     /\ prev[1].op = "resolve" /\ prev[1].linkId = procs[1].linkId
     /\ prev[1].options.timestamp # procs[1].options.timestamp
     /\ [prev[1].options EXCEPT !.timestamp = <<>>]
          = [procs[1].options EXCEPT !.timestamp = <<>>])
    => (procs[1].cached = Null /\ procs[1].fetches >= 1)

\* A step in which a successful update or withdraw invalidates
Invalidates ==
    /\ IsWrite(procs[1].op) /\ procs[1].pc = "gotResponse"
    /\ procs'[1].pc = "done" /\ procs'[1].error = NoError

\* C20: a successful update or withdraw of identifier A leaves every entry
\* cached for a different valid identifier B in the cache, with its value and
\* expiry.
C20_OtherIdsKept ==
    [][Invalidates =>
          \A e \in Entries(cache) :
              e.value.linkId # procs[1].linkId => e \in Entries(cache')]_vars

\* The pattern language of the specification: the whole key matches the
\* pattern, `*` stands for any run of characters and every other character
\* for itself
RECURSIVE GlobHere(_, _, _, _)
GlobHere(pattern, i, key, j) ==
    IF i > Len(pattern) THEN j > Len(key)
    ELSE IF pattern[i] = "*"
    THEN \E k \in j..(Len(key) + 1) : GlobHere(pattern, i + 1, key, k)
    ELSE /\ j <= Len(key)
         /\ pattern[i] = key[j]
         /\ GlobHere(pattern, i + 1, key, j + 1)

GlobMatch(pattern, key) == GlobHere(pattern, 1, key, 1)

\* A step that is a direct call of `op` on the MemoryCache
IsCacheCall(op) == ncalls' = ncalls + 1 /\ lastOp'.op = op

\* C21: delete(pattern) removes exactly the keys that match the whole
\* pattern; every key that does not match stays, with value and expiry
\* unchanged.
C21_DeleteExactlyMatching ==
    [][IsCacheCall("delete") =>
          \A e \in Entries(cache) :
              e \in Entries(cache') <=> ~GlobMatch(lastOp'.key, e.key)]_vars

\* C22: the number of stored entries never exceeds maxSize, whatever the
\* keys are (the empty string included).
C22_SizeWithinCapacity == Len(cache) <= cacheOpts.maxSize

\* C23: a set of a key that is not present, on a cache that holds maxSize
\* entries, removes exactly the entry inserted earliest and then inserts the
\* new one; a set below capacity removes nothing.
C23_EvictsOldest ==
    [][IsCacheCall("set") =>
          /\ (~MapHas(cache, lastOp'.key) /\ Len(cache) = cacheOpts.maxSize) =>
                /\ KeysOf(cache') = (KeysOf(cache) \ {cache[1].key}) \cup {lastOp'.key}
                /\ Len(cache') = Len(cache)
                /\ \A i \in 2..Len(cache) : cache[i] \in Entries(cache')
          /\ Len(cache) < cacheOpts.maxSize => KeysOf(cache) \subseteq KeysOf(cache')]_vars

\* C24: hits + misses is the number of get calls since construction or the
\* last clear, size is the number of stored entries, hitRate is
\* hits / (hits + misses), or 0 when no get has been counted, and after clear
\* the cache is empty and both counters are 0.
C24_StatsConsistent ==
    LET g == GetStats(cache, stats) IN
    /\ g.hits + g.misses = (IF lastOp.op = "none" THEN 0 ELSE lastOp.gets)
    /\ g.size = Cardinality(KeysOf(cache))
    /\ IF g.hits + g.misses = 0
       THEN g.hitRate.num = 0
       ELSE g.hitRate.num * (g.hits + g.misses) = g.hits * g.hitRate.den
    /\ lastOp.op = "clear" => (cache = <<>> /\ g.hits = 0 /\ g.misses = 0 /\ g.size = 0)

\* clear was the third call, on a cache that held an entry
C24_Witness ==
    /\ lastOp.op = "clear" /\ lastOp.n = 3 /\ lastOp.sizeBefore >= 1
    /\ cache = <<>> /\ stats = [hits |-> 0, misses |-> 0]

\* A step in which the caller starts a register, update or withdraw
StartsWrite ==
    /\ ncalls' = ncalls + 1
    /\ procs'[1].op \in {"register", "update", "withdraw"}

\* C25: register, update and withdraw called on a client that has no apiKey
\* raise an error without any fetch call and without removing or adding any
\* cache entry.
C25_NoApiKeyNoEffect ==
    [][(StartsWrite /\ ~config.hasApiKey) =>
          /\ procs'[1].pc = "done"
          /\ procs'[1].error # NoError
          /\ procs'[1].fetches = 0
          /\ procs'[1].sets = 0 /\ procs'[1].deletes = 0
          /\ cache' = cache]_vars

\* Without an apiKey a register with an https targetUri has been refused
\* while the cache holds an entry
C25_Witness ==
    /\ Done(1) /\ procs[1].op = "register" /\ ~config.hasApiKey
    /\ procs[1].targetUri = <<"h","t","t","p","s",":","/","/","e">>
    /\ procs[1].error = ValidationError /\ procs[1].fetches = 0
    /\ cache # <<>>

\* The rule of the specification: an absolute URL whose scheme is http or https
IsHttpUrl(uri) ==
    /\ SchemeOf(uri) \in {<<"h","t","t","p">>, <<"h","t","t","p","s">>}
    /\ StripSlashes(SubSeq(uri, ColonAt(uri) + 1, Len(uri))) # <<>>

\* C26: register raises ValidationError with zero fetch calls whenever
\* targetUri is missing or is not an absolute URL whose scheme is http or
\* https.
C26_TargetUriHttpOnly ==
    (Done(1) /\ procs[1].op = "register" /\ ~IsHttpUrl(procs[1].targetUri))
    => (procs[1].error = ValidationError /\ procs[1].fetches = 0)

\* C27: validateLinkID (JavaScript) and validateLinkId (Java) accept exactly
\* the strings of 32 to 64 characters that consist of characters in
\* [A-Za-z0-9._~-] only; every other string raises the validation error, and
\* the validation changes no state.
C27_ValidatorsExact ==
    [][\A op \in {"validateLinkID", "validateLinkId"} :
          (lastOp'.op = op /\ lastOp' # lastOp) =>
              /\ lastOp'.ok <=> ~FailsIdRule(lastOp'.id)
              /\ UNCHANGED <<discovery, config, cacheOpts, cache, stats, now, server, procs>>]_vars

\* The Java validator has accepted 63 letters followed by a tilde
C27_Witness ==
    /\ lastOp.op = "validateLinkId"
    /\ lastOp.id = Rep("a", 63) \o <<"~">>
    /\ lastOp.ok

\* C28: the identifier of the README and of the tests passes validateLinkID,
\* so a resolve of it reaches the network and returns the result of a 200
\* response.
C28_ReadmeIdResolves ==
    (Done(1) /\ procs[1].op = "resolve" /\ procs[1].linkId = IdReadme)
    => /\ procs[1].fetches >= 1
       /\ procs[1].error # ValidationError
       /\ ResolvedFrom(1, 200) => procs[1].result # Null

\* C29: discover never raises, whatever the outcome of the well-known fetch,
\* and always returns a list that is not empty, which is the single default
\* resolver URL when nothing was discovered.
C29_DiscoverNeverEmpty ==
    discovery.call.pc = "done"
    => /\ Len(discovery.call.result) >= 1
       /\ (discovery.call.fetches >= 1 /\ discovery.call.outcome # "document")
             => discovery.call.result = <<DefaultResolver>>

\* A discover whose fetch was answered with the body null has returned the
\* default resolver
C29_Witness ==
    /\ discovery.call.pc = "done" /\ discovery.call.fetches = 1
    /\ discovery.call.outcome = "null"
    /\ discovery.call.result = <<DefaultResolver>>

\* Two discover calls for the same domain, one directly after the other
SecondDiscover ==
    /\ discovery.call.pc = "done"
    /\ discovery.last.pc = "done"
    /\ discovery.last.domain = discovery.call.domain

\* ms between the return of the first and the start of the second
SinceFirst == discovery.call.startedAt - discovery.last.returnedAt

\* C30, as stated: after discover(domain) returns, a second discover(domain)
\* within 3600 seconds returns the same list and issues no fetch, and a
\* discover(domain) after 3600 seconds issues a new fetch.
C30_AsStated ==
    SecondDiscover =>
        IF SinceFirst <= 3600 * 1000
        THEN /\ discovery.call.fetches = 0
             /\ discovery.call.result = discovery.last.result
        ELSE discovery.call.fetches >= 1

\* C30, amended: after a discover(domain) that fetched returns, a second
\* discover(domain) less than 3600 seconds later returns the same list and
\* issues no fetch, and one 3600 seconds later or more issues a new fetch.
C30_CachedFromStore ==
    (SecondDiscover /\ discovery.last.fetches >= 1) =>
        IF SinceFirst < 3600 * 1000
        THEN /\ discovery.call.fetches = 0
             /\ discovery.call.result = discovery.last.result
        ELSE discovery.call.fetches >= 1

\* The fallback list was cached: a second discover, 1800 seconds after the
\* first had returned the default resolver, returned it again without a fetch
C30_Witness ==
    /\ SecondDiscover /\ discovery.last.fetches = 1
    /\ discovery.last.outcome = "networkError"
    /\ SinceFirst = 1800 * 1000
    /\ discovery.call.fetches = 0
    /\ discovery.call.result = <<DefaultResolver>>

\* C31: when the well-known fetch succeeds with a document of the shape
\* {issuer, endpoints: {resolve, metadata}, policies} whose endpoints.resolve
\* is B followed by '/resolve/{id}', discover returns the list [B].
C31_DocumentedShapeDiscovered ==
    \A B \in {"https://r.example"} :
        (/\ discovery.call.pc = "done"
         /\ discovery.call.fetches = 1
         /\ discovery.call.outcome = "documented"
         /\ discovery.call.endpoint = <<B, ResolveTemplate>>)
        => discovery.call.result = <<<<B>>>>

\* C32: in the Java client, under every interleaving of concurrent resolve
\* calls on the same cache key, an unexpired entry stored by one call is never
\* removed by another call's eviction of an expired entry: whenever
\* getFromCache removes an entry, that entry has expired.
C32_JavaNoFreshEntryLost ==
    [][\A p \in Procs :
          (procs[p].pc = "removing" /\ procs'[p].pc = "sending")
          => \A e \in procs'[p].removed : now > e]_vars

\* C33: for every retries value of the configuration, zero and negative
\* values included, the effective retry count is at least 1, so makeRequest
\* makes at least one fetch attempt and, when it fails, fails with
\* NetworkError.
C33_AtLeastOneAttempt ==
    /\ config.retries >= 1
    /\ (Done(1) /\ procs[1].op = "makeRequest")
          => /\ procs[1].fetches >= 1
             /\ procs[1].error \in {NoError, NetworkError}

\* C34: constructing the client from a configuration that names no resolver
\* URL throws.
C34_MissingResolverThrows ==
    (lastOp.op = "new LinkIDClient" /\ lastOp.given.resolverUrl = <<>>)
    => lastOp.threw

\* C35: the timeout timer of attempt k can abort only attempt k's request: a
\* timer that fires while the request of its own attempt is not in flight
\* (during a later attempt, or after makeRequest has returned) changes
\* nothing but the set of pending timers.
C35_TimerAbortsOwnAttemptOnly ==
    [][procs'[1].fired # procs[1].fired =>
          LET k == procs'[1].fired[1] IN
          \/ procs[1].pc = "fetching" /\ procs[1].controller = k
          \/ procs'[1] = [procs[1] EXCEPT !.timers = @ \ {k},
                                          !.fired = procs'[1].fired]]_vars

\* The timer of the first attempt fired while the request of the second was
\* in flight, and the call returned the response of the second attempt
C35_Witness ==
    /\ Done(1) /\ procs[1].error = NoError /\ procs[1].resp # NoResp
    /\ procs[1].resp.status = 200
    /\ procs[1].outcomes = <<0, 200>>
    /\ procs[1].fired = <<1, 2, "fetching">>

\* C36: a set on a key that is already present replaces only that key's
\* entry: a following get returns a value of the set, and every other key
\* that was present before the set is still present, also when the cache is
\* at capacity.
C36_OverwriteKeepsOthers ==
    [][(IsCacheCall("set") /\ MapHas(cache, lastOp'.key)) =>
          /\ MemGet(cache', stats', lastOp'.key, now').ret \in CacheValues
          /\ \A k \in KeysOf(cache) : MapHas(cache', k)]_vars

\* C37: get never changes the value or the expiry of an entry: the entries
\* after a get are the entries before it, in their order, without the
\* looked-up entry when it has expired; and no call but set gives an entry
\* a value or an expiry.
C37_GetKeepsEntries ==
    [][/\ IsCacheCall("get") =>
             LET key == lastOp'.key IN
             IF MapHas(cache, key) /\ now > MapGet(cache, key).expires
             THEN cache' = SelectSeq(cache, LAMBDA e : e.key # key)
             ELSE cache' = cache
       /\ ~IsCacheCall("set") =>
             \A i \in 1..Len(cache') : \E j \in 1..Len(cache) : cache'[i] = cache[j]]_vars

\* A get hit two seconds after the set: the entry is returned and still
\* expires three seconds after the set
C37_Witness ==
    /\ lastOp.op = "get" /\ lastOp.ret # Null
    /\ now = 2 * MsPerSecond
    /\ MapHas(cache, lastOp.key)
    /\ MapGet(cache, lastOp.key).expires = 3 * MsPerSecond

\* C38: an update or withdraw that fails (error response or NetworkError)
\* invalidates nothing: no step of the call changes the cache, so every
\* entry present before the call is present after it, with the same value
\* and expiry.
C38_FailedWriteKeepsCache ==
    [][(IsWrite(procs'[1].op) /\ cache' # cache)
          => (Done(1)' /\ procs'[1].error = NoError)]_vars

\* An update that was answered 400 has failed, and the entry an earlier
\* resolve had stored for the identifier is still in the cache
C38_Witness ==
    /\ Done(1) /\ procs[1].op = "update"
    /\ procs[1].outcomes = <<400>>
    /\ procs[1].error = ValidationError
    /\ prev[1].op = "resolve" /\ prev[1].linkId = IdA
    /\ MapHas(cache, GenerateCacheKey(IdA, prev[1].options))
    /\ MapGet(cache, GenerateCacheKey(IdA, prev[1].options)).expires = prev[1].expires

\* The resolve that follows, without bypassCache, a resolve with bypassCache
\* of the same identifier and the same other options that stored its result
FollowsBypass(p) ==
    /\ Done(p) /\ procs[p].op = "resolve"
    /\ ~procs[p].options.bypassCache
    /\ procs[p].error = NoError
    /\ prev[p].op = "resolve"
    /\ prev[p].linkId = procs[p].linkId
    /\ prev[p].options = [procs[p].options EXCEPT !.bypassCache = TRUE]

\* C39: with caching enabled, a resolve with bypassCache=true that is
\* answered with a 2xx status stores its result under the key of the same
\* call without bypassCache, in the place of any older entry; the resolve
\* that follows without bypassCache returns that entry without a fetch while
\* it has not expired, and never an older one.
C39_BypassRefreshesEntry ==
    /\ [][\A p \in Procs :
             (/\ procs[p].pc = "gotResponse" /\ Done(p)'
              /\ procs[p].op = "resolve" /\ procs[p].options.bypassCache
              /\ config.caching /\ procs'[p].error = NoError
              /\ IsOk(procs[p].resp.status))
             => LET key == GenerateCacheKey(procs[p].linkId,
                               [procs[p].options EXCEPT !.bypassCache = FALSE])
                IN  /\ MapHas(cache', key)
                    /\ MapGet(cache', key).value = procs'[p].result
                    /\ procs'[p].result.ver = server[procs[p].linkId]]_vars
    /\ [](FollowsBypass(1) =>
             LET key == GenerateCacheKey(procs[1].linkId, procs[1].options) IN
             /\ procs[1].startedAt <= prev[1].expires => procs[1].fetches = 0
             /\ procs[1].fetches = 0 =>
                   /\ procs[1].result = MapGet(cache, key).value
                   /\ MapGet(cache, key).expires = prev[1].expires)

\* The third call of a caller: a resolve with bypassCache had stored a
\* redirect result, and the resolve that followed returned it without a fetch
C39_Witness ==
    /\ FollowsBypass(1) /\ procs[1].fetches = 0
    /\ procs[1].result.type = "redirect"
    /\ ncalls = 3

\* C40: every operation of the client (resolve, register, update, withdraw)
\* terminates: if every fetch settles or is aborted by its timeout, a call
\* that was started returns or raises, after at most `retries` fetch calls
\* and at most `retries - 1` backoff waits (for retries >= 1; a client with
\* fewer makes no fetch and no wait).
C40_OperationsTerminate ==
    /\ (procs[1].pc \notin {"idle", "done"}) ~> Done(1)
    /\ [](/\ config.retries >= 1 =>
                /\ procs[1].fetches <= config.retries
                /\ Len(procs[1].waits) <= config.retries - 1
          /\ config.retries < 1 =>
                /\ procs[1].fetches = 0
                /\ Len(procs[1].waits) = 0)

\* An update whose every attempt failed has ended with NetworkError after
\* `retries` fetch calls and `retries - 1` waits
C40_Witness ==
    /\ Done(1) /\ procs[1].op = "update"
    /\ procs[1].error = NetworkError
    /\ config.retries = DefaultRetries
    /\ procs[1].fetches = config.retries
    /\ Len(procs[1].waits) = config.retries - 1

=============================================================================
